---------------------------- MODULE Spec2Model ----------------------------
(***************************************************************************)
(* Knowledge-decay scoring pipeline (InsightOps).                          *)
(*                                                                         *)
(* Numbers.  Every real number of the program is held as an integer count  *)
(* of millionths: 0.3 is 300000, 1.0 is ONE.  Math.round(x * 1000) / 1000  *)
(* is Round3, Math.round(x * 100) / 100 is the RoundTo(.., 10000) in       *)
(* calculateConfidence.  The arithmetic is exact decimal arithmetic; the   *)
(* program's IEEE doubles differ from it only by representation error far  *)
(* below one millionth.                                                    *)
(*                                                                         *)
(* Time.  Dates are integer hours since an arbitrary epoch; NoDate is an    *)
(* absent (null / undefined) date and NaN the age computed from one.       *)
(***************************************************************************)
EXTENDS Integers, Sequences, FiniteSets, TLC

VARIABLES
    env,        \* process.env weights read once at module load
    scored,     \* the calls of calculateConfidence under comparison:
                \* a sequence of at most two [params, result] records
    now,        \* the system clock (new Date()), in hours
    doc,        \* the stored document row freshness is evaluated for
    freshness,  \* what the latest evaluateFreshness call returned; NoResult
                \* before any call and once the row or the clock has changed
    observed,   \* history: the status the latest evaluateFreshness call
                \* reported, kept across later changes ("none" before any)
    call,       \* the latest call into the decay engine: its operation, its
                \* arguments as supplied and what it returned; NoCall once
                \* the caller has dropped it
    documentRows, \* the documents table: the rows in creation order
    versionRows, \* the document_versions table: the rows in creation order
    requests,   \* the PUT /api/documents/:id requests in flight, each with
                \* the row it read and the step it is at
    reports,    \* the decay_analyses table: the rows in creation order
    response    \* the latest HTTP response of a decay route

vars == <<env, scored, now, doc, freshness, observed, call,
          documentRows, versionRows, requests, reports, response>>
freshVars == <<now, doc, freshness, observed>>
documentVars == <<documentRows, versionRows, requests>>
reportVars == <<reports, response>>

---------------------------------------------------------------------------
(* Arithmetic helpers *)

ONE == 1000000

Min(a, b) == IF a <= b THEN a ELSE b
Max(a, b) == IF a >= b THEN a ELSE b

\* Math.round(num / den / step) * step: nearest multiple of step, ties
\* toward +infinity as Math.round does (den > 0, step > 0).
RoundTo(num, den, step) == step * ((2 * num + den * step) \div (2 * den * step))

\* Math.round(x * 1000) / 1000
Round3(x) == RoundTo(x, 1, 1000)

---------------------------------------------------------------------------
(* Configuration: confidenceScorer.js lines 10-14, part_002 line 40 *)

\* parseFloat(process.env.X) || d : an unset, unparsable or zero value
\* (held as 0) yields the default.
EnvOr(v, d) == IF v = 0 THEN d ELSE v

MAX_AGE_PENALTY(e) == EnvOr(e.WEIGHT_AGE_PENALTY, 300000)
MAX_CONTRADICTION_PENALTY(e) == EnvOr(e.WEIGHT_CONTRADICTION_PENALTY, 400000)
MAX_DRIFT_PENALTY(e) == EnvOr(e.WEIGHT_DRIFT_PENALTY, 200000)
MAX_SUPPORT_PENALTY(e) == EnvOr(e.WEIGHT_SUPPORT_PENALTY, 100000)

\* The environments the process is started in: nothing set (the defaults
\* and the local TF-IDF provider), every weight set to another value with
\* the Gemini provider, and the legacy OpenAI provider.
DefaultEnvironment ==
    [ WEIGHT_AGE_PENALTY |-> 0, WEIGHT_CONTRADICTION_PENALTY |-> 0,
      WEIGHT_DRIFT_PENALTY |-> 0, WEIGHT_SUPPORT_PENALTY |-> 0,
      EMBEDDING_PROVIDER |-> "" ]

ConfiguredEnvironment ==
    [ WEIGHT_AGE_PENALTY |-> 500000, WEIGHT_CONTRADICTION_PENALTY |-> 300000,
      WEIGHT_DRIFT_PENALTY |-> 100000, WEIGHT_SUPPORT_PENALTY |-> 200000,
      EMBEDDING_PROVIDER |-> "gemini" ]

LegacyEnvironment == [DefaultEnvironment EXCEPT !.EMBEDDING_PROVIDER = "openai"]

Environments == {DefaultEnvironment, ConfiguredEnvironment, LegacyEnvironment}

---------------------------------------------------------------------------
(* Confidence scorer: confidenceScorer.js lines 25-112 *)

\* Math.min(penalty, MAX): lines 35, 39, 43.
appliedPenalty(penalty, max) == Min(penalty, max)

\* A plausible slip: 1 - n/3 written as n/3, so that more supporting
\* documents cost more.
appliedSupportPenalty3_inverted(e, n) ==
    IF n = 0 THEN 3 * MAX_SUPPORT_PENALTY(e)
    ELSE IF n < 3 THEN MAX_SUPPORT_PENALTY(e) * n
    ELSE 0

\* Lines 48-53: MAX_SUPPORT_PENALTY * (1 - n / 3), in thirds of a millionth
\* so that the division by 3 is exact.
appliedSupportPenalty3(e, n) ==
    IF n = 0 THEN 3 * MAX_SUPPORT_PENALTY(e)
    ELSE IF n < 3 THEN MAX_SUPPORT_PENALTY(e) * (3 - n)
    ELSE 0

\* The four penalties as subtracted (before any rounding), in thirds of a
\* millionth.
appliedPenalties3(e, p) ==
    [ age |-> 3 * appliedPenalty(p.agePenalty, MAX_AGE_PENALTY(e)),
      contradiction |->
          3 * appliedPenalty(p.contradictionPenalty, MAX_CONTRADICTION_PENALTY(e)),
      drift |-> 3 * appliedPenalty(p.driftPenalty, MAX_DRIFT_PENALTY(e)),
      support |-> appliedSupportPenalty3(e, p.supportingDocsCount) ]

\* A plausible slip: only the lower bound is enforced.
ensureBounds3_lowerOnly(c3) == Max(0, c3)

\* Line 57: Math.max(0.0, Math.min(1.0, confidence)), in thirds of a millionth.
ensureBounds3(c3) == Max(0, Min(3 * ONE, c3))

calculateConfidence(e, p) ==
    LET a == appliedPenalties3(e, p)
        \* confidence after the four subtractions (lines 32-54)
        raw3 == 3 * ONE - a.age - a.contradiction - a.drift - a.support
        \* line 60: Math.round(confidence * 100) / 100
        confidence == RoundTo(ensureBounds3(raw3), 3, 10000)
    IN  [ confidence |-> confidence,
          breakdown |->
            [ starting_confidence |-> ONE,
              age_penalty |-> RoundTo(a.age, 3, 1000),
              contradiction_penalty |-> RoundTo(a.contradiction, 3, 1000),
              drift_penalty |-> RoundTo(a.drift, 3, 1000),
              support_penalty |-> RoundTo(a.support, 3, 1000),
              total_penalty |-> Round3(ONE - confidence),
              final_confidence |-> confidence ] ]

\* A plausible slip: critical freshness no longer raises the risk.
determineRiskLevel_criticalIgnored(confidence, signals) ==
    IF signals.hasContradictions \/ confidence < 400000 THEN "high"
    ELSE IF signals.hasSignificantDrift \/ confidence < 700000 THEN "medium"
    ELSE "low"

\* signals: [hasContradictions, hasSignificantDrift, freshnessStatus]
determineRiskLevel(confidence, signals) ==
    IF signals.hasContradictions \/ confidence < 400000 THEN "high"
    ELSE IF signals.hasSignificantDrift \/ signals.freshnessStatus = "critical"
            \/ confidence < 700000 THEN "medium"
    ELSE "low"

\* A plausible slip: only the risk level is looked at.
shouldFlagDecay_riskOnly(confidence, riskLevel) == riskLevel # "low"

shouldFlagDecay(confidence, riskLevel) ==
    confidence < ONE \/ riskLevel # "low"

---------------------------------------------------------------------------
(* Freshness evaluator: confidenceScorer.js lines 132-207 *)

\* 1000 * 60 * 60 * 24 milliseconds, in the model's hours.
HoursPerDay == 24

NoDate == -1
NaN == -1000000
NoResult == [status |-> "none"]
NoCall == [op |-> "none"]
NoReason == [type |-> "none"]

DocTypes == {"SOP", "Policy", "Guide", "Spec", "Notes"}

DECAY_THRESHOLDS ==
    [ t \in DocTypes |->
        CASE t = "SOP"    -> [warning |-> 30, critical |-> 90]
          [] t = "Policy" -> [warning |-> 60, critical |-> 180]
          [] t = "Guide"  -> [warning |-> 90, critical |-> 365]
          [] t = "Spec"   -> [warning |-> 45, critical |-> 120]
          [] t = "Notes"  -> [warning |-> 180, critical |-> 365] ]

\* DECAY_THRESHOLDS[type] || DECAY_THRESHOLDS.Notes
getThresholds(type) ==
    IF type \in DOMAIN DECAY_THRESHOLDS THEN DECAY_THRESHOLDS[type]
    ELSE DECAY_THRESHOLDS["Notes"]

\* Math.floor((now - updated) / (1000 * 60 * 60 * 24)); an absent date makes
\* new Date(undefined) invalid and the age NaN.
calculateAgeDays(updatedAt, clock) ==
    IF updatedAt = NoDate THEN NaN
    ELSE (clock - updatedAt) \div HoursPerDay

\* A plausible slip: the reference date is always updatedAt.
referenceDate_updatedOnly(document) == document.updatedAt

\* lastVerifiedAt || updatedAt
referenceDate(document) ==
    IF document.lastVerifiedAt # NoDate THEN document.lastVerifiedAt
    ELSE document.updatedAt

\* Lines 183 and 195: 0.1 + 0.2 * (overWarning / range), rounded to 3
\* decimals.
warningPenalty(overWarning, range) ==
    RoundTo(100000 * range + 200000 * overWarning, range, 1000)

evaluateFreshness(document, clock) ==
    LET thresholds == getThresholds(document.type)
        ageDays == calculateAgeDays(referenceDate(document), clock)
    IN  IF ageDays # NaN /\ ageDays >= thresholds.critical THEN
            [ status |-> "critical", ageDays |-> ageDays,
              thresholds |-> thresholds,
              penalty |-> Round3(300000),
              decayReason |->
                [ type |-> "time",
                  description |-> [ ageDays |-> ageDays, docType |-> document.type,
                                    level |-> "critical",
                                    threshold |-> thresholds.critical ],
                  sources |-> <<>> ] ]
        ELSE IF ageDays # NaN /\ ageDays >= thresholds.warning THEN
            [ status |-> "warning", ageDays |-> ageDays,
              thresholds |-> thresholds,
              penalty |-> warningPenalty(ageDays - thresholds.warning,
                                         thresholds.critical - thresholds.warning),
              decayReason |->
                [ type |-> "time",
                  description |-> [ ageDays |-> ageDays, docType |-> document.type,
                                    level |-> "warning",
                                    threshold |-> thresholds.warning ],
                  sources |-> <<>> ] ]
        ELSE
            [ status |-> "fresh", ageDays |-> ageDays,
              thresholds |-> thresholds,
              penalty |-> Round3(0),
              decayReason |-> NoReason ]

---------------------------------------------------------------------------
(* Text analysis: unnamed/part_001 lines 180-358 (utils/textAnalysis).    *)
(*                                                                         *)
(* A text is a sequence of sentences, the pieces text.split(/[.!?]+/)      *)
(* yields once trimmed; a sentence is the sequence of its words, each a    *)
(* maximal run of word characters, separated by single spaces.  The empty  *)
(* text stands for null, undefined and "": every function here tests       *)
(* !text and treats the three alike.                                       *)

NoText == <<>>

\* String.prototype.toLowerCase on one word of the vocabulary.
toLowerCase(word) ==
    CASE word = "Deployments" -> "deployments"
      [] word = "Users" -> "users"
      [] word = "Backups" -> "backups"
      [] word = "The" -> "the"
      [] word = "See" -> "see"
      [] OTHER -> word

lowered(sentence) == [i \in DOMAIN sentence |-> toLowerCase(sentence[i])]

\* The words of a whole text, in order.
RECURSIVE wordsOf(_)
wordsOf(text) ==
    IF text = <<>> THEN <<>> ELSE Head(text) \o wordsOf(Tail(text))

\* sentence.length: the words and the single spaces between them.
RECURSIVE charLength(_)
charLength(sentence) ==
    IF sentence = <<>> THEN 0
    ELSE Len(Head(sentence)) + (IF Len(sentence) > 1 THEN 1 ELSE 0)
           + charLength(Tail(sentence))

hasWord(sentence, words) == \E i \in DOMAIN sentence : sentence[i] \in words

\* /\bfirst second\b/ : two adjacent words.
hasPhrase(sentence, first, second) ==
    \E i \in 1..(Len(sentence) - 1) :
        sentence[i] = first /\ sentence[i + 1] = second

\* \d+ : the words that are digit runs.
Numerals == {"5", "10", "15", "20"}

\* (days?|hours?|minutes?|weeks?|%|percent) and unit.replace(/s$/, '')
unitStem(word) ==
    CASE word \in {"day", "days"} -> "day"
      [] word \in {"hour", "hours"} -> "hour"
      [] word \in {"minute", "minutes"} -> "minute"
      [] word \in {"week", "weeks"} -> "week"
      [] word = "percent" -> "percent"
      [] OTHER -> ""

\* The stop words natural's TfIdf drops from a string document, as far as
\* they occur in the vocabulary (single digits are among them).
StopWords == {"the", "must", "should", "never", "on", "to", "see", "5"}

\* ln(1/2) + 1: the idf natural gives every term of a one-document corpus.
IDF == 306853

NoEmbedding == [shape |-> "none"]
EmptyVector == [shape |-> "sparse", w |-> [t \in {} |-> 0]]

countOf(word, words) == Cardinality({i \in DOMAIN words : words[i] = word})

\* Lines 206-212: the terms whose tf-idf exceeds 0.1, each with its weight
\* rounded to 3 decimals.
weightsOf(words, terms) ==
    [ shape |-> "sparse",
      w |-> [t \in {u \in terms : countOf(u, words) * IDF > 100000} |->
                Round3(countOf(t, words) * IDF)] ]

\* tfidf.addDocument on the lowered text: its words without the stop words.
tfidfOf(words) == weightsOf(words, {words[i] : i \in DOMAIN words} \ StopWords)

\* A vector is [shape, w]: w maps each key (a term, or the index of a dense
\* array as a string) to its weight.
generateTfIdfEmbedding(text) ==
    IF text = NoText THEN EmptyVector ELSE tfidfOf(lowered(wordsOf(text)))

RECURSIVE Gcd(_, _)
Gcd(a, b) == IF b = 0 THEN a ELSE Gcd(b, a % b)

Abs(x) == IF x < 0 THEN -x ELSE x

RECURSIVE GcdOf(_, _)
GcdOf(w, keys) ==
    IF keys = {} THEN 0
    ELSE LET k == CHOOSE k \in keys : TRUE
         IN  Gcd(Abs(w[k]), GcdOf(w, keys \ {k}))

RECURSIVE SumOver(_, _)
SumOver(f, keys) ==
    IF keys = {} THEN 0
    ELSE LET k == CHOOSE k \in keys : TRUE
         IN  f[k] + SumOver(f, keys \ {k})

\* The largest m in lo..hi with m * m <= x (lo * lo <= x).
RECURSIVE floorSqrt(_, _, _)
floorSqrt(lo, hi, x) ==
    IF lo = hi THEN lo
    ELSE LET mid == (lo + hi + 1) \div 2
         IN  IF mid * mid <= x THEN floorSqrt(mid, hi, x)
             ELSE floorSqrt(lo, mid - 1, x)

\* The smallest m with m * m >= x, given the largest r with r * r <= x.
rootUp(r, x) == IF r * r >= x THEN r ELSE r + 1

\* G = 4 * 10^6 * dd / y for 0 <= dd <= y, as its integer part and whether
\* it is an integer; the product is formed in two steps of 2000.
scaledRatio(dd, y) ==
    [ floor |-> ((dd * 2000) \div y) * 2000 + ((((dd * 2000) % y) * 2000) \div y),
      whole |-> (((dd * 2000) % y) * 2000) % y = 0 ]

\* Math.round(1000 * dot / sqrt(y)) * 1000 millionths from G = 4 * 10^6 *
\* dot^2 / y: the largest k with (2k - 1)^2 <= G when dot >= 0, and minus
\* the smallest m with (2m + 1)^2 >= G when dot < 0 (Math.round rounds ties
\* upward).
roundedFrom(dot, g) ==
    IF dot >= 0 THEN 1000 * ((floorSqrt(0, 2001, g.floor) + 1) \div 2)
    ELSE -1000 * (rootUp(floorSqrt(0, 2001, g.floor),
                         g.floor + (IF g.whole THEN 0 ELSE 1)) \div 2)

\* Math.round((dotProduct / (Math.sqrt(norm1) * Math.sqrt(norm2))) * 1000)
\* / 1000, in millionths, without leaving the integers.
roundedCosine(dot, norm1, norm2) ==
    roundedFrom(dot, scaledRatio(dot * dot, norm1 * norm2))

\* vec[term] || 0
weightAt(w, term) == IF term \in DOMAIN w THEN w[term] ELSE 0

\* Lines 242-248.
cosineFrom(dotProduct, norm1, norm2) ==
    IF norm1 = 0 \/ norm2 = 0 THEN 0
    ELSE IF dotProduct = 0 THEN 0
    ELSE roundedCosine(dotProduct, norm1, norm2)

\* Lines 228-240: the sums over the terms of either vector.
cosineOver(w1, w2, allTerms) ==
    cosineFrom(
        SumOver([t \in allTerms |-> weightAt(w1, t) * weightAt(w2, t)], allTerms),
        SumOver([t \in allTerms |-> weightAt(w1, t) * weightAt(w1, t)], allTerms),
        SumOver([t \in allTerms |-> weightAt(w2, t) * weightAt(w2, t)], allTerms))

\* The weights divided by g.
dividedBy(w, g) == [t \in DOMAIN w |-> w[t] \div g]

\* The weights divided by their greatest common divisor, which leaves the
\* cosine unchanged and keeps the sums small.
reduced(w) == dividedBy(w, Max(1, GcdOf(w, DOMAIN w)))

\* Lines 223-249.
cosineSimilarity(vec1, vec2) ==
    IF \/ vec1 = NoEmbedding \/ vec2 = NoEmbedding
       \/ DOMAIN vec1.w = {} \/ DOMAIN vec2.w = {}
    THEN 0
    ELSE cosineOver(reduced(vec1.w), reduced(vec2.w),
                    DOMAIN vec1.w \cup DOMAIN vec2.w)

\* Lines 256-278: sentences longer than 20 characters that carry a factual
\* indicator (the patterns are case-insensitive).
isFactual(sentence) ==
    \/ hasWord(lowered(sentence), {"must", "shall", "should", "will", "always",
                                   "never", "required", "mandatory"})
    \/ hasWord(lowered(sentence), {"step", "process", "procedure", "method",
                                   "approach"})
    \/ hasWord(lowered(sentence), {"version", "release", "update", "deploy"})
    \/ hasWord(sentence, Numerals)

extractKeyStatements(text) ==
    IF text = NoText THEN <<>>
    ELSE SelectSeq(text, LAMBDA s : charLength(s) > 20 /\ isFactual(s))

\* negationPatterns, lines 291-296: [pos, neg] as predicates on a lowered
\* sentence.
posMatches(s) ==
    << hasWord(s, {"must"}), hasWord(s, {"always"}),
       hasWord(s, {"required"}), hasWord(s, {"enable"}) >>

negMatches(s) ==
    << hasPhrase(s, "must", "not") \/ hasPhrase(s, "should", "not"),
       hasWord(s, {"never"}),
       hasWord(s, {"optional"}) \/ hasPhrase(s, "not", "required"),
       hasWord(s, {"disable"}) >>

\* The positions of s where a number is followed by a unit.
numPositions(s) ==
    SelectSeq([i \in 1..Len(s) |-> i],
              LAMBDA i : i < Len(s) /\ s[i] \in Numerals /\ unitStem(s[i + 1]) # "")

matchesAt(s, at) == [j \in DOMAIN at |-> [number |-> s[at[j]], unit |-> s[at[j] + 1]]]

\* s.matchAll(numPattern): the [number, unit] pairs in order of appearance.
numMatches(s) == matchesAt(s, numPositions(s))

\* s.replace(numPattern, '')
withoutNumMatches(s) ==
    SelectSeq([i \in 1..Len(s) |-> [word |-> s[i], at |-> i]],
              LAMBDA x :
                  /\ ~(x.at < Len(s) /\ x.word \in Numerals
                         /\ unitStem(s[x.at + 1]) # "")
                  /\ ~(x.at > 1 /\ s[x.at - 1] \in Numerals
                         /\ unitStem(x.word) # ""))

wordsAt(marked) == [i \in DOMAIN marked |-> marked[i].word]

NoContradiction ==
    [isContradiction |-> FALSE, score |-> 0, reason |-> [text |-> "null"]]

\* Lines 298-300: some pattern has its positive side in one sentence and
\* its negative side in the other.
opposed(s1, s2) ==
    \E p \in 1..4 :
        \/ posMatches(s1)[p] /\ negMatches(s2)[p]
        \/ negMatches(s1)[p] /\ posMatches(s2)[p]

\* Lines 322-326: the pairs n1, n2 in loop order that have the same unit
\* and another number.
conflictingNumbers(nums1, nums2) ==
    SelectSeq([k \in 1..(Len(nums1) * Len(nums2)) |->
                  [n1 |-> nums1[((k - 1) \div Len(nums2)) + 1],
                   n2 |-> nums2[((k - 1) % Len(nums2)) + 1]]],
              LAMBDA q : /\ unitStem(q.n1.unit) = unitStem(q.n2.unit)
                         /\ q.n1.number # q.n2.number)

\* Lines 302-304 and 327-329: the similarity of two lowered sentences.
sentenceSimilarity(s1, s2) ==
    cosineSimilarity(generateTfIdfEmbedding(<<s1>>), generateTfIdfEmbedding(<<s2>>))

\* Lines 306-343: similarity is that of the whole sentences, stripped that
\* of the sentences without their numeric matches.
contradictionFrom(isOpposed, similarity, pairs, stripped) ==
    IF isOpposed /\ similarity > 300000 THEN
        [ isContradiction |-> TRUE, score |-> similarity,
          reason |-> [text |-> "Contradicting requirements detected"] ]
    ELSE IF pairs # <<>> /\ stripped > 400000 THEN
        [ isContradiction |-> TRUE, score |-> stripped,
          reason |-> [ text |-> "Numerical conflict",
                       n1 |-> pairs[1].n1, n2 |-> pairs[1].n2 ] ]
    ELSE NoContradiction

compareLowered(s1, s2) ==
    contradictionFrom(opposed(s1, s2),
                      sentenceSimilarity(s1, s2),
                      conflictingNumbers(numMatches(s1), numMatches(s2)),
                      sentenceSimilarity(wordsAt(withoutNumMatches(s1)),
                                         wordsAt(withoutNumMatches(s2))))

\* Lines 286-344.
detectStatementContradiction(stmt1, stmt2) ==
    compareLowered(lowered(stmt1), lowered(stmt2))

\* Lines 352-358.
calculateSemanticDifference(text1, text2) ==
    Round3(ONE - cosineSimilarity(generateTfIdfEmbedding(text1),
                                   generateTfIdfEmbedding(text2)))

---------------------------------------------------------------------------
(* Embedding provider: unnamed/part_002 lines 39-66 (utils/vectorUtils) *)

\* What model.embedContent can do: fail, or return some dense vector.
GeminiOutcomes ==
    { [ok |-> FALSE, error |-> "Gemini embedding error"],
      [ok |-> TRUE, value |-> [shape |-> "dense",
                               w |-> [k \in {"0", "1"} |->
                                        IF k = "0" THEN 600000 ELSE -800000]]] }

getEmbedding(e, text, outcome) ==
    LET provider == IF e.EMBEDDING_PROVIDER = "" THEN "tfidf"
                    ELSE e.EMBEDDING_PROVIDER
    IN  IF provider = "tfidf" THEN
            [ok |-> TRUE, value |-> generateTfIdfEmbedding(text)]
        ELSE IF provider = "gemini" THEN
            IF outcome.ok THEN [ok |-> TRUE, value |-> outcome.value]
            ELSE [ok |-> TRUE, value |-> generateTfIdfEmbedding(text)]
        ELSE IF provider = "openai" THEN
            [ok |-> FALSE, error |-> "OpenAI embeddings deprecated"]
        ELSE [ok |-> FALSE, error |-> "Unknown embedding provider"]

---------------------------------------------------------------------------
(* Contradiction detector: ragEngine.js lines 169-301 *)

\* typeRank[type] || 1
typeRank(type) ==
    CASE type = "SOP" -> 5
      [] type = "Policy" -> 4
      [] type = "Spec" -> 3
      [] type = "Guide" -> 2
      [] type = "Notes" -> 1
      [] OTHER -> 1

isMoreAuthoritative(doc1, doc2) == typeRank(doc1.type) > typeRank(doc2.type)

\* new Date(a) < new Date(b): false when either date is invalid.
dateBefore(a, b) == a # NoDate /\ b # NoDate /\ a < b

\* contradictions.filter(c => c.severity === severity).length
severityCount(contradictions, severity) ==
    Len(SelectSeq(contradictions, LAMBDA c : c.severity = severity))

\* A plausible slip: the cap of 0.4 is left out.
calculateContradictionPenalty_uncapped(contradictions) ==
    Round3(severityCount(contradictions, "high") * 150000
           + severityCount(contradictions, "medium") * 80000)

calculateContradictionPenalty(contradictions) ==
    IF Len(contradictions) = 0 THEN 0
    ELSE Min(400000, Round3(severityCount(contradictions, "high") * 150000
                            + severityCount(contradictions, "medium") * 80000))

\* text.substring(0, maxLen - 3) + '...' when longer than maxLen; a shown
\* string is the sentence it was cut from and the characters kept.
truncate(text, maxLen) ==
    IF charLength(text) <= maxLen
    THEN [of |-> text, chars |-> charLength(text), ellipsis |-> FALSE]
    ELSE [of |-> text, chars |-> maxLen - 3, ellipsis |-> TRUE]

\* Line 195: one statement pair and what the comparison says of it.
comparison(stmt1, stmt2) ==
    [ stmt1 |-> stmt1, stmt2 |-> stmt2,
      result |-> detectStatementContradiction(stmt1, stmt2) ]

\* Lines 193-194: the statement pairs, stmt1 in the outer loop and stmt2 in
\* the inner one.
comparisons(docStatements, relatedStatements) ==
    [k \in 1..(Len(docStatements) * Len(relatedStatements)) |->
        comparison(docStatements[((k - 1) \div Len(relatedStatements)) + 1],
                   relatedStatements[((k - 1) % Len(relatedStatements)) + 1])]

\* Lines 197-211: the record pushed for each contradicting pair.
contradictionRecords(document, relatedDoc, found) ==
    [i \in DOMAIN found |->
        [ thisDocument |-> [ statement |-> found[i].stmt1,
                             documentId |-> document.id ],
          conflictsWith |-> [ statement |-> found[i].stmt2,
                              documentId |-> relatedDoc.id,
                              documentTitle |-> relatedDoc.title ],
          severity |-> IF found[i].result.score > 600000 THEN "high"
                       ELSE "medium",
          reason |-> found[i].result.reason ]]

\* Lines 191-213: the contradictions with one related document.
contradictionsWith(document, relatedDoc) ==
    contradictionRecords(document, relatedDoc,
        SelectSeq(comparisons(extractKeyStatements(document.content),
                              extractKeyStatements(relatedDoc.content)),
                  LAMBDA x : x.result.isContradiction))

\* Line 187: a related document that is older and not more authoritative
\* is skipped.
skipped(document, relatedDoc) ==
    /\ dateBefore(relatedDoc.updatedAt, document.updatedAt)
    /\ ~isMoreAuthoritative(relatedDoc, document)

RECURSIVE collectContradictions(_, _)
collectContradictions(document, relatedDocs) ==
    IF relatedDocs = <<>> THEN <<>>
    ELSE (IF skipped(document, Head(relatedDocs)) THEN <<>>
          ELSE contradictionsWith(document, Head(relatedDocs)))
         \o collectContradictions(document, Tail(relatedDocs))

\* Lines 217-231: the result built from the contradictions found.
contradictionResultOf(contradictions) ==
    [ hasContradictions |-> Len(contradictions) > 0,
      contradictions |-> contradictions,
      penalty |-> calculateContradictionPenalty(contradictions),
      decayReasons |->
        [i \in DOMAIN contradictions |->
            [ type |-> "contradiction",
              description |->
                [ statement |->
                    truncate(contradictions[i].thisDocument.statement, 60),
                  conflictsWith |->
                    truncate(contradictions[i].conflictsWith.statement, 60),
                  documentTitle |->
                    contradictions[i].conflictsWith.documentTitle ],
              sources |-> <<contradictions[i].conflictsWith.documentId>> ]] ]

\* Lines 169-232.  Without related documents the result carries no
\* decayReasons field.
detectContradictions(document, relatedDocs) ==
    IF Len(relatedDocs) = 0 THEN
        [hasContradictions |-> FALSE, contradictions |-> <<>>, penalty |-> 0]
    ELSE contradictionResultOf(collectContradictions(document, relatedDocs))

\* A plausible slip: the comparator is a.similarity - b.similarity.
insertBySimilarity_ascending(d, sorted) ==
    SelectSeq(sorted, LAMBDA x : x.similarity < d.similarity)
    \o <<d>>
    \o SelectSeq(sorted, LAMBDA x : x.similarity >= d.similarity)

\* d placed after the documents of a sorted list that are more similar.
insertBySimilarity(d, sorted) ==
    SelectSeq(sorted, LAMBDA x : x.similarity > d.similarity)
    \o <<d>>
    \o SelectSeq(sorted, LAMBDA x : x.similarity <= d.similarity)

\* Array.prototype.sort with (a, b) => b.similarity - a.similarity: a
\* stable sort, most similar first.
RECURSIVE sortBySimilarity(_)
sortBySimilarity(docs) ==
    IF docs = <<>> THEN <<>>
    ELSE insertBySimilarity(Head(docs), sortBySimilarity(Tail(docs)))

\* document.embedding || generateTfIdfEmbedding(document.content)
embeddingOf(d) ==
    IF d.embedding # NoEmbedding THEN d.embedding
    ELSE generateTfIdfEmbedding(d.content)

\* Lines 291-298: each document with its similarity to docEmbedding.
withSimilarity(docEmbedding, docs) ==
    [i \in DOMAIN docs |->
        docs[i] @@ [similarity |-> cosineSimilarity(docEmbedding,
                                                    embeddingOf(docs[i]))]]

\* Lines 287-301.
findRelatedDocuments(document, allDocs, threshold) ==
    sortBySimilarity(
        SelectSeq(withSimilarity(embeddingOf(document),
                                 SelectSeq(allDocs, LAMBDA d : d.id # document.id)),
                  LAMBDA d : d.similarity >= threshold))

---------------------------------------------------------------------------
(* Version drift analyzer: documentParser.js lines 123-201 *)

SIGNIFICANT_DRIFT_THRESHOLD == 400000
MODERATE_DRIFT_THRESHOLD == 250000

RECURSIVE maxOf(_)
maxOf(numbers) ==
    IF numbers = <<>> THEN 0 ELSE Max(Head(numbers), maxOf(Tail(numbers)))

\* Lines 151-153: the difference between the document and each version.
driftsOf(document, versions) ==
    [i \in DOMAIN versions |->
        calculateSemanticDifference(document.content, versions[i].content)]

\* Lines 159-167: a change for each version at or over the moderate
\* threshold, in the versions' order.
changesOf(document, versions, drifts, moderate) ==
    [j \in DOMAIN moderate |->
        [ fromVersion |-> versions[moderate[j]].versionNumber,
          toVersion |-> document.currentVersion,
          driftScore |-> drifts[moderate[j]],
          severity |->
              IF drifts[moderate[j]] >= SIGNIFICANT_DRIFT_THRESHOLD
              THEN "significant" ELSE "moderate",
          summary |-> [version |-> versions[moderate[j]].versionNumber] ]]

\* A plausible slip: a moderate drift carries no penalty.
driftPenaltyOf_significantOnly(maxDrift) ==
    IF maxDrift >= SIGNIFICANT_DRIFT_THRESHOLD THEN 200000 ELSE 0

\* Lines 175-180.
driftPenaltyOf(maxDrift) ==
    IF maxDrift >= SIGNIFICANT_DRIFT_THRESHOLD THEN 200000
    ELSE IF maxDrift >= MODERATE_DRIFT_THRESHOLD THEN 100000
    ELSE 0

\* Lines 182-200.
driftResultOf(maxDrift, changes, significantChanges) ==
    [ hasDrift |-> maxDrift >= MODERATE_DRIFT_THRESHOLD,
      hasSignificantDrift |-> Len(significantChanges) > 0,
      driftScore |-> Round3(maxDrift),
      penalty |-> Round3(driftPenaltyOf(maxDrift)),
      changes |-> changes,
      decayReason |->
          IF Len(significantChanges) > 0 THEN
              [ type |-> "version_drift",
                description |->
                  [ fromVersion |-> significantChanges[1].fromVersion,
                    toVersion |-> significantChanges[1].toVersion,
                    driftScore |-> significantChanges[1].driftScore ],
                sources |-> <<>> ]
          ELSE NoReason ]

\* A plausible slip: the reason is built from any recorded change, moderate
\* ones included.
driftOfChanges_anyChange(maxDrift, changes) ==
    driftResultOf(maxDrift, changes, changes)

\* Lines 171-172: the significant changes among the changes.
driftOfChanges(maxDrift, changes) ==
    driftResultOf(maxDrift, changes,
                  SelectSeq(changes, LAMBDA c : c.severity = "significant"))

\* Lines 147-168: the loop over the versions.
driftOver(document, versions, drifts) ==
    driftOfChanges(maxOf(drifts),
        changesOf(document, versions, drifts,
                  SelectSeq([i \in DOMAIN versions |-> i],
                            LAMBDA i : drifts[i] >= MODERATE_DRIFT_THRESHOLD)))

analyzeVersionDrift(document, versions) ==
    IF Len(versions) = 0 THEN
        \* this early result carries no hasSignificantDrift field
        [ hasDrift |-> FALSE, driftScore |-> 0, penalty |-> 0,
          changes |-> <<>>, decayReason |-> NoReason ]
    ELSE driftOver(document, versions, driftsOf(document, versions))

---------------------------------------------------------------------------
(* Update generator: updateGenerator.js lines 19-185 *)

\* extractSection: the first quoted string of the description, at most 50
\* characters of it.
extractSection(description) ==
    LET shown == description.statement
        length == shown.chars + (IF shown.ellipsis THEN 3 ELSE 0)
    IN  [of |-> shown.of, chars |-> Min(50, length)]

\* One recommendation per reason, lines 24-39 and 58-116.
recommendationFor(document, reason, newerDocs) ==
    CASE reason.type = "time" ->
            [ section |-> "Document Review Required",
              suggested_text |-> [ tag |-> "REVIEW NEEDED",
                                   docType |-> document.type,
                                   days |-> reason.description.ageDays ],
              reason |-> reason.description, priority |-> "medium" ]
      [] reason.type = "contradiction" ->
            LET conflicting ==
                    SelectSeq(newerDocs, LAMBDA d : d.id = reason.sources[1])
            IN  [ section |-> extractSection(reason.description),
                  suggested_text |->
                      IF conflicting # <<>>
                      THEN [ tag |-> "CONFLICT DETECTED",
                             title |-> conflicting[1].title,
                             updated |-> conflicting[1].updatedAt ]
                      ELSE [ tag |-> "CONFLICT DETECTED" ],
                  reason |-> reason.description, priority |-> "high" ]
      [] reason.type = "version_drift" ->
            [ section |-> "Version History Note",
              suggested_text |-> [ tag |-> "SIGNIFICANT CHANGES",
                                   currentVersion |-> document.currentVersion ],
              reason |-> reason.description, priority |-> "low" ]
      [] reason.type = "low_support" ->
            [ section |-> "Verification Needed",
              suggested_text |-> [ tag |-> "LOW SUPPORTING EVIDENCE" ],
              reason |-> reason.description, priority |-> "medium" ]

hasReason(decayReasons, type) ==
    \E i \in DOMAIN decayReasons : decayReasons[i].type = type

\* Lines 121-154: the sentences of the summary, joined by the caller.
generateWhatChangedSummary(decayReasons, newerDocs) ==
    IF Len(decayReasons) = 0 THEN << [text |-> "No significant changes detected."] >>
    ELSE
        LET cited == { decayReasons[i].sources[1] :
                         i \in { j \in DOMAIN decayReasons :
                                   decayReasons[j].type = "contradiction" } }
            withTitles == SelectSeq(newerDocs, LAMBDA d : d.id \in cited)
            docTitles == [i \in DOMAIN withTitles |-> withTitles[i].title]
            parts ==
                (IF hasReason(decayReasons, "time")
                 THEN << [text |-> "The document has not been reviewed recently and may contain outdated information."] >>
                 ELSE <<>>)
                \o (IF ~hasReason(decayReasons, "contradiction") THEN <<>>
                    ELSE IF Len(docTitles) > 0
                    THEN << [ text |-> "Conflicting information was found in:",
                              docTitles |-> docTitles ] >>
                    ELSE << [text |-> "Conflicting information was detected in related documents."] >>)
                \o (IF hasReason(decayReasons, "version_drift")
                    THEN << [text |-> "Significant semantic changes were made in recent versions."] >>
                    ELSE <<>>)
        IN  IF parts # <<>> THEN parts
            ELSE << [text |-> "Decay signals detected. Review recommended."] >>

\* Lines 19-53.
generateUpdateRecommendations(document, decayAnalysis, newerDocs) ==
    [ recommendations |->
          [i \in DOMAIN decayAnalysis.decayReasons |->
              recommendationFor(document, decayAnalysis.decayReasons[i], newerDocs)],
      whatChangedSummary |->
          generateWhatChangedSummary(decayAnalysis.decayReasons, newerDocs),
      requiresHumanReview |-> TRUE ]

---------------------------------------------------------------------------
(* Decay engine: updateGenerator.js lines 216-377 *)

\* A plausible slip: the ids are spread into the array without the Set.
unique_keepingAll(ids) == ids

\* [...new Set(ids)]: first occurrences, in order.
RECURSIVE unique(_)
unique(ids) ==
    IF ids = <<>> THEN <<>>
    ELSE LET init == unique(SubSeq(ids, 1, Len(ids) - 1))
             last == ids[Len(ids)]
         IN  IF \E i \in DOMAIN init : init[i] = last THEN init
             ELSE Append(init, last)

RECURSIVE flatSources(_)
flatSources(reasons) ==
    IF reasons = <<>> THEN <<>>
    ELSE Head(reasons).sources \o flatSources(Tail(reasons))

NoId == ""

\* Lines 306-330: the final output and the document as the call leaves it.
buildOutput(document, signals, scoredResult, riskLevel, decayReasons, decayDetected, updateResult, citations) ==
    [ ok |-> TRUE,
      document |-> document,
      verdict |->
        [ decay_detected |-> decayDetected,
          confidence_score |-> scoredResult.confidence,
          risk_level |-> riskLevel,
          decay_reasons |-> decayReasons,
          what_changed_summary |-> updateResult.whatChangedSummary,
          update_recommendations |->
              [i \in DOMAIN updateResult.recommendations |->
                  [ section |-> updateResult.recommendations[i].section,
                    suggested_text |->
                        updateResult.recommendations[i].suggested_text ]],
          citations |-> citations,
          _internal |->
            [ confidence_breakdown |-> scoredResult.breakdown,
              freshness |-> [ status |-> signals.freshnessResult.status,
                              age_days |-> signals.freshnessResult.ageDays ],
              contradictions |-> signals.contradictionResult.contradictions,
              \* an undefined has_significant_drift is an absent field
              drift |->
                  IF "hasSignificantDrift" \in DOMAIN signals.driftResult
                  THEN [ score |-> signals.driftResult.driftScore,
                         has_significant_drift |->
                             signals.driftResult.hasSignificantDrift ]
                  ELSE [ score |-> signals.driftResult.driftScore ] ] ] ]

\* Lines 283-303: the recommendations when decay is detected, and the
\* citations.
recommend(document, relatedDocs, signals, scoredResult, riskLevel, decayReasons, decayDetected) ==
    buildOutput(document, signals, scoredResult, riskLevel, decayReasons, decayDetected,
        IF decayDetected
        THEN generateUpdateRecommendations(document,
                 [decayReasons |-> decayReasons],
                 SelectSeq(relatedDocs,
                     LAMBDA d : dateBefore(document.updatedAt, d.updatedAt)))
        ELSE [ recommendations |-> <<>>,
               whatChangedSummary |-> << [text |-> "No decay signals detected."] >> ],
        SelectSeq(unique(flatSources(decayReasons)
                         \o [i \in DOMAIN relatedDocs |-> relatedDocs[i].id]),
                  LAMBDA id : id # NoId))

\* A plausible slip: the drift reason is pushed before the contradictions.
compileReasons_driftFirst(document, relatedDocs, signals, scoredResult, riskLevel) ==
    recommend(document, relatedDocs, signals, scoredResult, riskLevel,
        (IF signals.freshnessResult.decayReason # NoReason
         THEN <<signals.freshnessResult.decayReason>> ELSE <<>>)
        \o (IF signals.driftResult.decayReason # NoReason
            THEN <<signals.driftResult.decayReason>> ELSE <<>>)
        \o (IF "decayReasons" \in DOMAIN signals.contradictionResult
            THEN signals.contradictionResult.decayReasons ELSE <<>>)
        \o (IF Len(relatedDocs) = 0 /\ scoredResult.breakdown.support_penalty > 0
            THEN << [ type |-> "low_support",
                      description |->
                        [text |-> "No supporting documents found for cross-validation"],
                      sources |-> <<>> ] >>
            ELSE <<>>),
        shouldFlagDecay(scoredResult.confidence, riskLevel))

\* Lines 256-280: the decay reasons in the order freshness, contradictions,
\* drift, low support; then whether decay is flagged.
compileReasons(document, relatedDocs, signals, scoredResult, riskLevel) ==
    recommend(document, relatedDocs, signals, scoredResult, riskLevel,
        (IF signals.freshnessResult.decayReason # NoReason
         THEN <<signals.freshnessResult.decayReason>> ELSE <<>>)
        \o (IF "decayReasons" \in DOMAIN signals.contradictionResult
            THEN signals.contradictionResult.decayReasons ELSE <<>>)
        \o (IF signals.driftResult.decayReason # NoReason
            THEN <<signals.driftResult.decayReason>> ELSE <<>>)
        \o (IF Len(relatedDocs) = 0 /\ scoredResult.breakdown.support_penalty > 0
            THEN << [ type |-> "low_support",
                      description |->
                        [text |-> "No supporting documents found for cross-validation"],
                      sources |-> <<>> ] >>
            ELSE <<>>),
        shouldFlagDecay(scoredResult.confidence, riskLevel))

\* Lines 249-253: the risk level.
assessRisk(document, relatedDocs, signals, scoredResult) ==
    compileReasons(document, relatedDocs, signals, scoredResult,
        determineRiskLevel(scoredResult.confidence,
            [ hasContradictions |-> signals.contradictionResult.hasContradictions,
              hasSignificantDrift |->
                  /\ "hasSignificantDrift" \in DOMAIN signals.driftResult
                  /\ signals.driftResult.hasSignificantDrift,
              freshnessStatus |-> signals.freshnessResult.status ]))

\* A plausible slip: the document itself is counted among its supporting
\* documents.
scoreSignals_countingItself(e, document, relatedDocs, signals) ==
    assessRisk(document, relatedDocs, signals,
        calculateConfidence(e,
            [ agePenalty |-> signals.freshnessResult.penalty,
              contradictionPenalty |-> signals.contradictionResult.penalty,
              driftPenalty |-> signals.driftResult.penalty,
              supportingDocsCount |-> Len(relatedDocs) + 1 ]))

\* Lines 241-246: the confidence score with its breakdown.
scoreSignals(e, document, relatedDocs, signals) ==
    assessRisk(document, relatedDocs, signals,
        calculateConfidence(e,
            [ agePenalty |-> signals.freshnessResult.penalty,
              contradictionPenalty |-> signals.contradictionResult.penalty,
              driftPenalty |-> signals.driftResult.penalty,
              supportingDocsCount |-> Len(relatedDocs) ]))

\* Lines 232-238: the three signals.
evaluateSignals(e, document, versions, relatedDocs, clock) ==
    scoreSignals(e, document, relatedDocs,
        [ freshnessResult |-> evaluateFreshness(document, clock),
          contradictionResult |-> detectContradictions(document, relatedDocs),
          driftResult |-> analyzeVersionDrift(document, versions) ])

\* A plausible slip: the vector obtained is used for the analysis but not
\* kept on the document object.
analyzeEmbedded_notStored(e, request, clock, embedded) ==
    IF ~embedded.ok THEN
        [ok |-> FALSE, error |-> embedded.error, document |-> request.document]
    ELSE [ evaluateSignals(e,
               [request.document EXCEPT !.embedding = embedded.value],
               request.versions,
               IF Len(request.relatedDocs) = 0 /\ Len(request.allDocs) > 0
               THEN findRelatedDocuments(
                        [request.document EXCEPT !.embedding = embedded.value],
                        request.allDocs, 300000)
               ELSE request.relatedDocs,
               clock)
           EXCEPT !.document = request.document ]

\* Lines 222-229: without an embedding the call rejects; related documents
\* are found among allDocs when none are given.
analyzeEmbedded(e, request, clock, embedded) ==
    IF ~embedded.ok THEN
        [ok |-> FALSE, error |-> embedded.error, document |-> request.document]
    ELSE evaluateSignals(e,
             [request.document EXCEPT !.embedding = embedded.value],
             request.versions,
             IF Len(request.relatedDocs) = 0 /\ Len(request.allDocs) > 0
             THEN findRelatedDocuments(
                      [request.document EXCEPT !.embedding = embedded.value],
                      request.allDocs, 300000)
             ELSE request.relatedDocs,
             clock)

\* Lines 216-331.  request is [document, versions, relatedDocs, allDocs];
\* the result is the verdict and the document object as the call leaves it,
\* or the error the call rejects with.
analyzeDocument(e, request, clock, outcome) ==
    analyzeEmbedded(e, request, clock,
        IF request.document.embedding = NoEmbedding
        THEN getEmbedding(e, request.document.content, outcome)
        ELSE [ok |-> TRUE, value |-> request.document.embedding])

\* A plausible slip: a failure ends the loop, and the results so far are
\* returned.
pushRecord_aborting(results, document, analysis) ==
    IF analysis.ok
    THEN Append(results, [ documentId |-> document.id,
                           documentTitle |-> document.title ] @@ analysis.verdict)
    ELSE results

\* Lines 354-373: what one pass of the loop pushes, the spread verdict or
\* the record of the catch block.
pushRecord(results, document, analysis) ==
    IF analysis.ok
    THEN Append(results, [ documentId |-> document.id,
                           documentTitle |-> document.title ] @@ analysis.verdict)
    ELSE Append(results,
                [ documentId |-> document.id,
                  documentTitle |-> document.title,
                  error |-> analysis.error,
                  decay_detected |-> FALSE,
                  confidence_score |-> 0,
                  risk_level |-> "high",
                  decay_reasons |->
                      << [ type |-> "error",
                           description |-> [ text |-> "Analysis failed",
                                             message |-> analysis.error ],
                           sources |-> <<>> ] >> ])

\* One pass of the loop of lines 342-374 after the passes before it.
batchStep(before, document, analysis) ==
    [ results |-> pushRecord(before.results, document, analysis),
      documents |-> Append(before.documents, analysis.document) ]

\* Lines 345-352: the analysis of one document of the batch, with its own
\* versions and no related documents but the pool.
analyzeInBatch(e, document, allDocs, clock, outcome) ==
    analyzeDocument(e, [ document |-> document, versions |-> document.versions,
                         relatedDocs |-> <<>>, allDocs |-> allDocs ],
                    clock, outcome)

\* Lines 339-377.  outcomes[i] is what the embedding provider does when it
\* is called for documents[i]; the result is the list of records and the
\* document objects as the call leaves them.
RECURSIVE batchAnalyze(_, _, _, _, _)
batchAnalyze(e, documents, allDocs, clock, outcomes) ==
    IF documents = <<>> THEN [results |-> <<>>, documents |-> <<>>]
    ELSE batchStep(batchAnalyze(e, SubSeq(documents, 1, Len(documents) - 1),
                                allDocs, clock, outcomes),
                   documents[Len(documents)],
                   analyzeInBatch(e, documents[Len(documents)], allDocs, clock,
                                  outcomes[Len(documents)]))

---------------------------------------------------------------------------
(* Similarity of embeddings: unnamed/part_002 lines 74-97
   (utils/vectorUtils calculateSimilarity) *)

\* A number as the quotient dot / sqrt(norms), or NaN.
quotient(dot, norms) == [nan |-> FALSE, dot |-> dot, norms |-> norms]
NaNQuotient == [nan |-> TRUE, dot |-> 0, norms |-> 1]

\* A number given in millionths that is a whole number of thousandths.
thousandths(x) == quotient(x \div 1000, 1000000)

\* The index i of an array as the key of its element.
IndexKeys == <<"0", "1", "2", "3">>

\* emb[i] is undefined beyond the array and on an object of terms.
definedAt(emb, key) == emb # NoEmbedding /\ emb.shape = "dense" /\ key \in DOMAIN emb.w

\* Line 92-93: magnitude === 0 ? 0 : dotProduct / magnitude.
denseQuotient(dotProduct, norm1, norm2) ==
    IF norm1 = 0 \/ norm2 = 0 THEN quotient(0, 1) ELSE quotient(dotProduct, norm1 * norm2)

\* Lines 82-93: the sums over the indices of emb1; an undefined emb2[i]
\* makes dotProduct and norm2 NaN.
denseSimilarity(w1, emb2) ==
    IF \E key \in DOMAIN w1 : ~definedAt(emb2, key) THEN NaNQuotient
    ELSE denseQuotient(
             SumOver([key \in DOMAIN w1 |-> w1[key] * emb2.w[key]], DOMAIN w1),
             SumOver([key \in DOMAIN w1 |-> w1[key] * w1[key]], DOMAIN w1),
             SumOver([key \in DOMAIN w1 |-> emb2.w[key] * emb2.w[key]], DOMAIN w1))

\* Lines 74-97.  An object of terms goes to cosineSimilarity, an array is
\* summed over its own indices; reading an index of a missing emb2 throws.
calculateSimilarity(emb1, emb2) ==
    IF emb1 = NoEmbedding THEN quotient(0, 1)
    ELSE IF emb1.shape = "sparse" THEN thousandths(cosineSimilarity(emb1, emb2))
    ELSE IF emb2 = NoEmbedding /\ DOMAIN emb1.w # {} THEN [error |-> "TypeError"]
    ELSE denseSimilarity(emb1.w, emb2)

---------------------------------------------------------------------------
(* Scoring harness: calculateConfidence as called by any caller *)

MaxSupportingDocs == 3

AgePenaltyInputs == {-500000, 0, 133000, 150400, 1000000}
ContradictionPenaltyInputs == {0, 230000, 1000000}
DriftPenaltyInputs == {0, 100000, 500000}

ScoreParams ==
    [ agePenalty : AgePenaltyInputs,
      contradictionPenalty : ContradictionPenaltyInputs,
      driftPenalty : DriftPenaltyInputs,
      supportingDocsCount : 0..MaxSupportingDocs ]

\* The freshness variables while only the scorer is exercised.
\* No stored document, no stored analysis, no request in flight and no
\* response yet.
NoResponse == [route |-> "none"]

StoreIdle ==
    /\ documentRows = <<>>
    /\ versionRows = <<>>
    /\ requests = <<>>
    /\ reports = <<>>
    /\ response = NoResponse

FreshIdle ==
    /\ now = 0
    /\ doc = [type |-> "Notes", updatedAt |-> 0, lastVerifiedAt |-> NoDate]
    /\ freshness = NoResult
    /\ observed = "none"
    /\ call = NoCall

InitScore ==
    /\ env \in Environments
    /\ scored = <<>>
    /\ FreshIdle
    /\ StoreIdle

ScoreCall ==
    /\ Len(scored) < 2
    /\ \E p \in ScoreParams :
          scored' = Append(scored,
                           [params |-> p, result |-> calculateConfidence(env, p)])
    /\ UNCHANGED <<documentVars, reportVars, env, freshVars, call>>

ScoreForget ==
    /\ Len(scored) = 2
    /\ scored' = <<>>
    /\ UNCHANGED <<documentVars, reportVars, env, freshVars, call>>

NextScore == ScoreCall \/ ScoreForget

SpecScore == InitScore /\ [][NextScore]_vars

---------------------------------------------------------------------------
(* Freshness of one stored document over time.                             *)
(* Documents routes: POST / (create), PUT /:id, POST /:id/verify; rows     *)
(* carry Sequelize timestamps (config/database.js line 24), so every write *)
(* that changes the row sets updatedAt to the current time.                *)

MaxAgeDays == 400
MaxClockDays == 390
ClockStepDays == 15

NoType == "undefined"

\* evaluateFreshness applied to the current row at the current time.
EvaluateFreshness ==
    /\ freshness' = evaluateFreshness(doc, now)
    /\ observed' = freshness'.status
    /\ UNCHANGED <<documentVars, reportVars, env, scored, now, doc, call>>

\* Time passes.
Tick ==
    /\ now + ClockStepDays * HoursPerDay <= MaxClockDays * HoursPerDay
    /\ now' = now + ClockStepDays * HoursPerDay
    /\ freshness' = NoResult
    /\ UNCHANGED <<documentVars, reportVars, env, scored, doc, observed, call>>

\* POST /api/documents/:id/verify.  Without verifiedBy the request is
\* rejected (400) and nothing is written.
VerifyDocument ==
    \E verifiedBy \in {"", "reviewer"} :
        IF verifiedBy = "" THEN UNCHANGED vars
        ELSE /\ doc' = [doc EXCEPT !.lastVerifiedAt = now, !.updatedAt = now]
             /\ freshness' = NoResult
             /\ UNCHANGED <<documentVars, reportVars, env, scored, now, observed, call>>

\* PUT /api/documents/:id.  The body may carry new content, a new title
\* and a type (the column is an ENUM of DocTypes); a request that changes
\* nothing writes nothing.
UpdateDocument ==
    \E change \in {"content", "title", "none"}, type \in DocTypes \cup {NoType} :
        LET newType == IF type = NoType THEN doc.type ELSE type
            written == change # "none" \/ newType # doc.type
        IN  IF written
            THEN /\ doc' = [doc EXCEPT !.type = newType, !.updatedAt = now]
                 /\ freshness' = NoResult
                 /\ UNCHANGED <<documentVars, reportVars, env, scored, now, observed, call>>
            ELSE UNCHANGED vars

\* A document created (POST /api/documents) at time 0, never verified.
InitFresh ==
    /\ StoreIdle
    /\ env = DefaultEnvironment
    /\ scored = <<>>
    /\ call = NoCall
    /\ now = 0
    /\ \E t \in DocTypes :
          doc = [type |-> t, updatedAt |-> 0, lastVerifiedAt |-> NoDate]
    /\ freshness = NoResult
    /\ observed = "none"

NextFresh == Tick \/ VerifyDocument \/ UpdateDocument \/ EvaluateFreshness

SpecFresh == InitFresh /\ [][NextFresh]_vars

---------------------------------------------------------------------------
(* evaluateFreshness as a function: any document object at any age *)

EvalDocuments ==
    { d \in [ type : DocTypes \cup {"Unknown", NoType},
              updatedAt : {0, NoDate},
              lastVerifiedAt : {NoDate, 10 * HoursPerDay} ] :
        d.updatedAt = NoDate => d.lastVerifiedAt = NoDate }

InitEval ==
    /\ StoreIdle
    /\ env \in Environments
    /\ scored = <<>>
    /\ call = NoCall
    /\ doc \in EvalDocuments
    /\ \E days \in 0..MaxAgeDays, hours \in {0, 12} :
          now = Max(referenceDate(doc), 0) + days * HoursPerDay + hours
    /\ freshness = NoResult
    /\ observed = "none"

NextEval == EvaluateFreshness

SpecEval == InitEval /\ [][NextEval]_vars

---------------------------------------------------------------------------
(* The decay engine as its callers use it: analyzeDocument on a document  *)
(* with its versions, related documents and candidate pool, and            *)
(* detectContradictions called directly.                                   *)

MaxRelated == 2

sDeploy5 == <<"Deployments", "must", "complete", "within", "5", "minutes">>
sDeploy15 == <<"Deployments", "must", "complete", "within", "15", "minutes">>
sMfaMust == <<"Users", "must", "enable", "two", "factor", "authentication">>
sMfaMustNot ==
    <<"Users", "must", "not", "enable", "two", "factor", "authentication">>
sBackupAlways ==
    <<"Backups", "always", "run", "nightly", "on", "primary", "servers">>
sBackupNever ==
    <<"Backups", "never", "run", "during", "business", "peak", "hours">>
sTokens == <<"Users", "enable", "hardware", "tokens">>
sPlain == <<"The", "team", "enjoys", "writing", "clear", "documentation">>
sShort == <<"See", "wiki">>

SubjectContents ==
    { <<sDeploy5, sMfaMust>>, <<sBackupAlways, sDeploy5>>, <<sPlain, sShort>> }
SubjectTypes == {"Guide", "SOP"}
SubjectAgeDays == {1, 100}

\* A subject comes without a stored embedding, or with the one stored for
\* an earlier revision of its content.
StoredEmbeddings ==
    { NoEmbedding, generateTfIdfEmbedding(<<sDeploy15, sMfaMustNot>>) }

\* The documents under review at time clock.
Subjects(clock) ==
    { [ id |-> "doc-1", title |-> "Runbook", type |-> t, content |-> c,
        updatedAt |-> clock - age * HoursPerDay, lastVerifiedAt |-> NoDate,
        embedding |-> em, currentVersion |-> 1 ] :
      t \in SubjectTypes, c \in SubjectContents, age \in SubjectAgeDays,
      em \in StoredEmbeddings }

RelatedDoc(id, title, type, updatedAt, content) ==
    [ id |-> id, title |-> title, type |-> type, content |-> content,
      updatedAt |-> updatedAt, lastVerifiedAt |-> NoDate,
      embedding |-> NoEmbedding, currentVersion |-> 1 ]

\* The other documents of the workspace, dated around the subject:
\* newer, older and of the same instant; of higher, equal, lower and
\* unknown authority; one without a date.
Corpus(subject) ==
    LET at == subject.updatedAt
    IN  << RelatedDoc("doc-2", "New Deployment Guide", "Guide", at + HoursPerDay,
                      <<sDeploy15, sMfaMustNot>>),
           RelatedDoc("doc-3", "Deployment SOP", "SOP", at - HoursPerDay,
                      <<sDeploy15, sMfaMustNot>>),
           RelatedDoc("doc-4", "Old Notes", "Notes", at - HoursPerDay,
                      <<sDeploy15, sMfaMustNot>>),
           RelatedDoc("doc-5", "Sibling Guide", "Guide", at,
                      <<sDeploy15, sMfaMustNot>>),
           RelatedDoc("doc-6", "Backup Notes", "Notes", at + HoursPerDay,
                      <<sBackupNever>>),
           RelatedDoc("doc-7", "Scratch", NoType, NoDate,
                      <<sDeploy15, sPlain>>) >>

\* The ways to pick at most MaxRelated distinct documents of a corpus of
\* the given size, in any order.
Picks(size) ==
    UNION { { f \in [1..n -> 1..size] : \A i, j \in 1..n : i # j => f[i] # f[j] } :
            n \in 0..MaxRelated }

picked(corpus, pick) == [i \in DOMAIN pick |-> corpus[pick[i]]]

Version(number, content) ==
    [versionNumber |-> number, content |-> content, embedding |-> NoEmbedding]

VersionLists ==
    { <<>>,
      << Version(1, <<sDeploy5, sMfaMust>>) >>,
      << Version(1, <<sDeploy5, sTokens>>) >>,
      << Version(2, <<sPlain, sShort>>), Version(1, <<sDeploy5, sTokens>>) >> }

InitAnalyze ==
    /\ StoreIdle
    /\ env \in Environments
    /\ scored = <<>>
    /\ now = (MaxAgeDays + 1) * HoursPerDay
    /\ doc = [type |-> "Notes", updatedAt |-> 0, lastVerifiedAt |-> NoDate]
    /\ freshness = NoResult
    /\ observed = "none"
    /\ call = NoCall

\* analyzeDocument({document, versions, relatedDocs, allDocs}).  A candidate
\* pool (the whole workspace, the subject included) comes with or without
\* related documents; it is only read when none are supplied.
AnalyzeDocument ==
    /\ call = NoCall
    /\ \E s \in Subjects(now), versions \in VersionLists,
          outcome \in GeminiOutcomes :
          \E pick \in Picks(Len(Corpus(s))) :
          \E pool \in (IF pick = <<>> THEN BOOLEAN ELSE {FALSE}) :
            LET request ==
                    [ document |-> [s EXCEPT !.currentVersion = Len(versions) + 1],
                      versions |-> versions,
                      relatedDocs |-> picked(Corpus(s), pick),
                      allDocs |-> IF pool THEN <<s>> \o Corpus(s) ELSE <<>> ]
            IN  call' = [ op |-> "analyzeDocument", args |-> request,
                          result |-> analyzeDocument(env, request, now, outcome) ]
    /\ UNCHANGED <<documentVars, reportVars, env, scored, freshVars>>

\* detectContradictions(document, relatedDocs) called directly.
DetectContradictions ==
    /\ call = NoCall
    /\ \E s \in Subjects(now) : \E pick \in Picks(Len(Corpus(s))) :
          LET relatedDocs == picked(Corpus(s), pick)
          IN  call' = [ op |-> "detectContradictions",
                        args |-> [document |-> s, relatedDocs |-> relatedDocs],
                        result |-> detectContradictions(s, relatedDocs) ]
    /\ UNCHANGED <<documentVars, reportVars, env, scored, freshVars>>

\* The caller is done with the result.
Return ==
    /\ call # NoCall
    /\ call' = NoCall
    /\ UNCHANGED <<documentVars, reportVars, env, scored, freshVars>>

Next == AnalyzeDocument \/ DetectContradictions \/ Return

Spec == InitAnalyze /\ [][Next]_vars

---------------------------------------------------------------------------
(* The version drift analyzer called on a document and its prior versions, *)
(* newest first, each with or without a stored embedding.                  *)

MaxVersions == 2

VersionContents ==
    { <<sDeploy5, sMfaMust>>, <<sDeploy5, sTokens>>, <<sPlain, sShort>> }

\* The version lists of at most MaxVersions versions, numbered downwards
\* from the newest.
StoredVersionLists ==
    UNION { { [i \in 1..n |-> [ versionNumber |-> n - i + 1,
                                content |-> c[i], embedding |-> em[i] ]] :
              c \in [1..n -> VersionContents],
              em \in [1..n -> StoredEmbeddings] } :
            n \in 0..MaxVersions }

\* analyzeVersionDrift(document, versions).
AnalyzeVersionDrift ==
    /\ call = NoCall
    /\ \E s \in Subjects(now), versions \in StoredVersionLists :
          LET document == [s EXCEPT !.currentVersion = Len(versions) + 1]
          IN  call' = [ op |-> "analyzeVersionDrift",
                        args |-> [document |-> document, versions |-> versions],
                        result |-> analyzeVersionDrift(document, versions) ]
    /\ UNCHANGED <<documentVars, reportVars, env, scored, freshVars>>

NextDrift == AnalyzeVersionDrift \/ Return

SpecDrift == InitAnalyze /\ [][NextDrift]_vars

---------------------------------------------------------------------------
(* findRelatedDocuments called on a document and a candidate pool, with    *)
(* the default threshold and with others.                                  *)

MaxPool == 2

Thresholds == {0, 300000, 400000, 900000}

\* The ways to list at most MaxPool distinct documents of a corpus of the
\* given size, in any order.
PoolPicks(size) ==
    UNION { { f \in [1..n -> 1..size] : \A i, j \in 1..n : i # j => f[i] # f[j] } :
            n \in 0..MaxPool }

\* findRelatedDocuments(document, allDocs, threshold); the pool holds the
\* document itself.
FindRelatedDocuments ==
    /\ call = NoCall
    /\ \E s \in Subjects(now), threshold \in Thresholds :
          \E pick \in PoolPicks(Len(Corpus(s))) :
            LET allDocs == <<s>> \o picked(Corpus(s), pick)
            IN  call' = [ op |-> "findRelatedDocuments",
                          args |-> [ document |-> s, allDocs |-> allDocs,
                                     threshold |-> threshold ],
                          result |-> findRelatedDocuments(s, allDocs, threshold) ]
    /\ UNCHANGED <<documentVars, reportVars, env, scored, freshVars>>

NextRelated == FindRelatedDocuments \/ Return

SpecRelated == InitAnalyze /\ [][NextRelated]_vars

---------------------------------------------------------------------------
(* batchAnalyze called on a list of documents, each with its versions, and *)
(* the workspace's documents as candidate pool.                            *)

MaxBatch == 2

NoTitle == "undefined"

\* { id: 'batch-4', content: null }: every other field is missing.
MalformedDocument ==
    [ id |-> "doc-8", title |-> NoTitle, type |-> NoType, content |-> NoText,
      updatedAt |-> NoDate, lastVerifiedAt |-> NoDate,
      embedding |-> NoEmbedding, currentVersion |-> 0, versions |-> <<>> ]

BatchDocument(id, ageDays, content, embedding, versions, clock) ==
    [ id |-> id, title |-> "Runbook", type |-> "Guide", content |-> content,
      updatedAt |-> clock - ageDays * HoursPerDay, lastVerifiedAt |-> NoDate,
      embedding |-> embedding, currentVersion |-> Len(versions) + 1,
      versions |-> versions ]

\* The documents a batch is made of: well-formed ones with and without a
\* stored embedding, and the malformed one.
BatchDocuments(clock) ==
    { BatchDocument("doc-1", 100, <<sDeploy5, sMfaMust>>, NoEmbedding,
                    << Version(1, <<sDeploy5, sTokens>>) >>, clock),
      BatchDocument("doc-9", 1, <<sBackupAlways, sDeploy5>>,
                    generateTfIdfEmbedding(<<sBackupAlways, sDeploy5>>), <<>>, clock),
      BatchDocument("doc-10", 1, <<sPlain, sShort>>, NoEmbedding, <<>>, clock),
      MalformedDocument }

\* The workspace as the pool: the other documents around the first batch
\* document.
Workspace(clock) ==
    Corpus(BatchDocument("doc-1", 100, <<sDeploy5, sMfaMust>>, NoEmbedding, <<>>, clock))

\* batchAnalyze(documents, allDocs).
BatchAnalyze ==
    /\ call = NoCall
    /\ \E n \in 0..MaxBatch :
          \E documents \in [1..n -> BatchDocuments(now)],
             outcomes \in [1..n -> GeminiOutcomes],
             allDocs \in {<<>>, Workspace(now)} :
            call' = [ op |-> "batchAnalyze",
                      args |-> [documents |-> documents, allDocs |-> allDocs],
                      provider |-> outcomes,
                      result |-> batchAnalyze(env, documents, allDocs, now, outcomes) ]
    /\ UNCHANGED <<documentVars, reportVars, env, scored, freshVars>>

NextBatch == BatchAnalyze \/ Return

SpecBatch == InitAnalyze /\ [][NextBatch]_vars

---------------------------------------------------------------------------
(* analyzeDocument called twice on the same document object, with the same *)
(* versions, related documents, pool and clock.  The embedding provider    *)
(* may behave differently in the two calls.                                *)

\* The related documents given with the first call.
RepeatRelated(subject) ==
    { <<>>, <<Corpus(subject)[1]>>, <<Corpus(subject)[6], Corpus(subject)[3]>> }

AnalyzeFirst ==
    /\ call = NoCall
    /\ \E s \in Subjects(now), versions \in VersionLists,
          outcome \in GeminiOutcomes, pool \in BOOLEAN :
          \E relatedDocs \in RepeatRelated(s) :
            LET request ==
                    [ document |-> [s EXCEPT !.currentVersion = Len(versions) + 1],
                      versions |-> versions,
                      relatedDocs |-> relatedDocs,
                      allDocs |-> IF pool THEN <<s>> \o Corpus(s) ELSE <<>> ]
            IN  call' = [ op |-> "analyzeDocument", args |-> request,
                          result |-> analyzeDocument(env, request, now, outcome) ]
    /\ UNCHANGED <<documentVars, reportVars, env, scored, freshVars>>

\* The second call: the document is the object the first call left.
AnalyzeAgain ==
    /\ call # NoCall
    /\ call.op = "analyzeDocument"
    /\ \E outcome \in GeminiOutcomes :
          LET request == [call.args EXCEPT !.document = call.result.document]
          IN  call' = [ op |-> "analyzeDocumentAgain", args |-> request,
                        first |-> call,
                        result |-> analyzeDocument(env, request, now, outcome) ]
    /\ UNCHANGED <<documentVars, reportVars, env, scored, freshVars>>

NextRepeat == AnalyzeFirst \/ AnalyzeAgain \/ Return

SpecRepeat == InitAnalyze /\ [][NextRepeat]_vars

---------------------------------------------------------------------------
(* Decay routes: unnamed/part_000 lines 404-664 (routes/decay) and
   models/DecayAnalysis.js *)

MaxReports == 2

\* res.json(body) and the error handler's answer to a thrown error.
respond(route, body) == [route |-> route, status |-> 200, body |-> body]
fail(route, status, message) == [route |-> route, status |-> status, body |-> [error |-> message]]

\* A row of the documents table without its joined versions.
documentRow(d) == [f \in DOMAIN d \ {"versions"} |-> d[f]]

\* Document.findByPk(id): the rows with that key, at most one.
findByPk(rows, id) == SelectSeq(rows, LAMBDA r : r.id = id)

\* include: [{model: DocumentVersion, as: 'versions'}].
versionsOf(rows, documentId) == SelectSeq(rows, LAMBDA v : v.documentId = documentId)

\* attributes: ['id', 'title', 'type', 'content', 'embedding', 'updatedAt'].
poolOf(rows) == [i \in DOMAIN rows |-> [f \in {"id", "title", "type", "content", "embedding", "updatedAt"} |-> rows[i][f]]]

\* DecayAnalysis.create: the row as the model's defaults complete it.
analysisRow(id, documentId, verdict, clock) ==
    [ id |-> id,
      documentId |-> documentId,
      decayDetected |-> verdict.decay_detected,
      confidenceScore |-> verdict.confidence_score,
      riskLevel |-> verdict.risk_level,
      decayReasons |-> verdict.decay_reasons,
      whatChangedSummary |-> verdict.what_changed_summary,
      updateRecommendations |-> verdict.update_recommendations,
      citations |-> verdict.citations,
      confidenceBreakdown |-> verdict._internal.confidence_breakdown,
      analyzedAt |-> clock,
      analyzedBy |-> "system",
      reviewStatus |-> "pending",
      reviewedAt |-> NoDate,
      reviewedBy |-> "",
      reviewNotes |-> "" ]

\* validate: {min: 0.0, max: 1.0} on confidenceScore.
validAnalysis(verdict) == verdict.confidence_score >= 0 /\ verdict.confidence_score <= ONE

\* Lines 456-483: the analysis is stored and answered; a rejected analysis
\* or an invalid row ends in the error handler.
storeAnalysis(rows, document, analysis, clock) ==
    IF ~analysis.ok THEN
        [reports |-> rows, response |-> fail("POST /analyze", 500, analysis.error)]
    ELSE IF ~validAnalysis(analysis.verdict) THEN
        [reports |-> rows, response |-> fail("POST /analyze", 500, "Validation error")]
    ELSE
        [ reports |-> Append(rows, analysisRow(Len(rows) + 1, document.id, analysis.verdict, clock)),
          response |-> respond("POST /analyze",
              [ analysisId |-> Len(rows) + 1,
                documentId |-> document.id,
                documentTitle |-> document.title,
                decay_detected |-> analysis.verdict.decay_detected,
                confidence_score |-> analysis.verdict.confidence_score,
                risk_level |-> analysis.verdict.risk_level,
                decay_reasons |-> analysis.verdict.decay_reasons,
                what_changed_summary |-> analysis.verdict.what_changed_summary,
                update_recommendations |-> analysis.verdict.update_recommendations,
                citations |-> analysis.verdict.citations ]) ]

\* Lines 427-454: the document with its versions, the workspace as the
\* pool, and the analysis.
analyzeFound(e, rows, found, versions, allDocs, clock, outcome) ==
    IF found = <<>> THEN
        [reports |-> rows, response |-> fail("POST /analyze", 404, "Document not found")]
    ELSE storeAnalysis(rows, found[1],
             analyzeDocument(e, [ document |-> found[1] @@ [versions |-> versions],
                                  versions |-> versions,
                                  relatedDocs |-> <<>>,
                                  allDocs |-> allDocs ],
                             clock, outcome),
             clock)

\* POST /api/decay/analyze, lines 419-483.
postAnalyze(e, documentTable, versionTable, rows, body, clock, outcome) ==
    IF body.documentId = NoId THEN
        [reports |-> rows, response |-> fail("POST /analyze", 400, "documentId is required")]
    ELSE analyzeFound(e, rows, findByPk(documentTable, body.documentId),
             versionsOf(versionTable, body.documentId),
             IF body.includeRelated THEN poolOf(documentTable) ELSE <<>>,
             clock, outcome)

\* Lines 537-553: a row for every record without an error.
RECURSIVE storeResults(_, _, _)
storeResults(rows, results, clock) ==
    IF results = <<>> THEN rows
    ELSE storeResults(
             IF "error" \in DOMAIN Head(results) THEN rows
             ELSE Append(rows, analysisRow(Len(rows) + 1, Head(results).documentId, Head(results), clock)),
             Tail(results), clock)

\* Lines 556-567: the answer of the batch route.
batchBody(results) ==
    [ analyzed |-> Len(results),
      decayDetected |-> Len(SelectSeq(results, LAMBDA r : r.decay_detected)),
      results |-> [i \in DOMAIN results |->
                     [ documentId |-> results[i].documentId,
                       documentTitle |-> results[i].documentTitle,
                       decay_detected |-> results[i].decay_detected,
                       confidence_score |-> results[i].confidence_score,
                       risk_level |-> results[i].risk_level,
                       decay_reasons |-> results[i].decay_reasons ]] ]

\* Lines 531-567: the batch analysis, the stored rows and the answer.
storeBatch(rows, results, clock) ==
    IF \E i \in DOMAIN results : "error" \notin DOMAIN results[i] /\ ~validAnalysis(results[i])
    THEN [reports |-> rows, response |-> fail("POST /batch", 500, "Validation error")]
    ELSE [reports |-> storeResults(rows, results, clock), response |-> respond("POST /batch", batchBody(results))]

\* Lines 520-534: nothing found, or the documents with their versions
\* against the whole workspace.
batchFound(e, documentTable, versionTable, rows, documents, clock, outcomes) ==
    IF documents = <<>> THEN
        [ reports |-> rows,
          response |-> respond("POST /batch", [results |-> <<>>, message |-> "No documents found"]) ]
    ELSE storeBatch(rows,
             batchAnalyze(e,
                 [i \in DOMAIN documents |->
                     documents[i] @@ [versions |-> versionsOf(versionTable, documents[i].id)]],
                 poolOf(documentTable), clock, outcomes).results,
             clock)

\* POST /api/decay/batch, lines 489-568.  body.documentIds is the list of
\* requested ids, empty when only the workspace is named.
postBatch(e, documentTable, versionTable, rows, body, clock, outcomes) ==
    IF body.workspaceId = "" /\ body.documentIds = <<>> THEN
        [ reports |-> rows,
          response |-> fail("POST /batch", 400, "Either workspaceId or documentIds is required") ]
    ELSE batchFound(e, documentTable, versionTable, rows,
             IF body.documentIds # <<>>
             THEN SelectSeq(documentTable,
                      LAMBDA d : \E i \in DOMAIN body.documentIds : body.documentIds[i] = d.id)
             ELSE documentTable,
             clock, outcomes)

\* The joined document of a report row.
withDocument(documentTable, row) ==
    row @@ [document |-> [f \in {"id", "title", "type"} |-> findByPk(documentTable, row.documentId)[1][f]]]

\* order: [['analyzedAt', 'DESC']], the latest row first.
latestFirst(rows) == [i \in DOMAIN rows |-> rows[Len(rows) + 1 - i]]

\* GET /api/decay/reports, lines 574-608.
getReports(documentTable, rows, query) ==
    respond("GET /reports",
        [ reports |-> latestFirst(
              SelectSeq([i \in DOMAIN rows |-> withDocument(documentTable, rows[i])],
                        LAMBDA r : query.reviewStatus = "" \/ r.reviewStatus = query.reviewStatus)),
          total |-> Len(SelectSeq(rows,
                        LAMBDA r : query.reviewStatus = "" \/ r.reviewStatus = query.reviewStatus)) ])

\* GET /api/decay/reports/:docId, lines 614-630.
getReport(documentTable, rows, docId) ==
    IF SelectSeq(rows, LAMBDA r : r.documentId = docId) = <<>>
    THEN fail("GET /reports/:docId", 404, "No decay report found for this document")
    ELSE respond("GET /reports/:docId",
             withDocument(documentTable,
                 latestFirst(SelectSeq(rows, LAMBDA r : r.documentId = docId))[1]))

ReviewStatuses == {"pending", "reviewed", "dismissed", "actioned"}

\* Lines 653-658: report.update.
reviewed(row, body, clock) ==
    [row EXCEPT !.reviewStatus = body.reviewStatus,
                !.reviewedBy = body.reviewedBy,
                !.reviewNotes = body.reviewNotes,
                !.reviewedAt = clock]

\* PUT /api/decay/reports/:id/review, lines 636-664.
putReview(rows, id, body, clock) ==
    IF findByPk(rows, id) = <<>> THEN
        [ reports |-> rows,
          response |-> fail("PUT /reports/:id/review", 404, "Decay report not found") ]
    ELSE IF body.reviewStatus \notin ReviewStatuses THEN
        [ reports |-> rows,
          response |-> fail("PUT /reports/:id/review", 400, "Invalid reviewStatus") ]
    ELSE IF body.reviewedBy = "" THEN
        [ reports |-> rows,
          response |-> fail("PUT /reports/:id/review", 400, "reviewedBy is required") ]
    ELSE
        [ reports |-> [i \in DOMAIN rows |->
                          IF rows[i].id = id THEN reviewed(rows[i], body, clock) ELSE rows[i]],
          response |-> respond("PUT /reports/:id/review",
                          [ message |-> "Review status updated",
                            report |-> reviewed(findByPk(rows, id)[1], body, clock) ]) ]

---------------------------------------------------------------------------
(* Decay routes harness: a workspace of stored documents and the requests
   of any client *)

\* The documents table: a document with an older version and a younger one
\* with a stored embedding.
StoredDocuments(clock) ==
    << documentRow(BatchDocument("doc-1", 100, <<sDeploy5, sMfaMust>>, NoEmbedding,
                                 << Version(1, <<sDeploy5, sTokens>>) >>, clock)),
       documentRow(BatchDocument("doc-9", 1, <<sBackupAlways, sDeploy5>>,
                                 generateTfIdfEmbedding(<<sBackupAlways, sDeploy5>>), <<>>, clock)) >>

StoredVersions ==
    << Version(1, <<sDeploy5, sTokens>>) @@ [documentId |-> "doc-1"] >>

InitReports ==
    /\ env \in Environments
    /\ scored = <<>>
    /\ now = (MaxAgeDays + 1) * HoursPerDay
    /\ doc = [type |-> "Notes", updatedAt |-> 0, lastVerifiedAt |-> NoDate]
    /\ freshness = NoResult
    /\ observed = "none"
    /\ call = NoCall
    /\ documentRows = StoredDocuments(now)
    /\ versionRows = StoredVersions
    /\ requests = <<>>
    /\ reports = <<>>
    /\ response = NoResponse

RequestedIds == {NoId, "doc-1", "doc-9", "doc-404"}

AnalyzeBodies == [documentId : RequestedIds, includeRelated : BOOLEAN]

BatchBodies ==
    { [workspaceId |-> "", documentIds |-> <<>>],
      [workspaceId |-> "ws-1", documentIds |-> <<>>],
      [workspaceId |-> "", documentIds |-> <<"doc-9">>],
      [workspaceId |-> "", documentIds |-> <<"doc-404">>] }

ReviewBodies ==
    [ reviewStatus : ReviewStatuses \cup {"archived"},
      reviewedBy : {"", "ana"},
      reviewNotes : {""} ]

PostAnalyze ==
    /\ Len(reports) < MaxReports
    /\ \E body \in AnalyzeBodies, outcome \in GeminiOutcomes :
          /\ reports' = postAnalyze(env, documentRows, versionRows, reports, body, now, outcome).reports
          /\ response' = postAnalyze(env, documentRows, versionRows, reports, body, now, outcome).response
    /\ UNCHANGED <<documentVars, env, scored, freshVars, call>>

PostBatch ==
    /\ Len(reports) + Len(documentRows) <= MaxReports
    /\ \E body \in BatchBodies, outcomes \in [DOMAIN documentRows -> GeminiOutcomes] :
          /\ reports' = postBatch(env, documentRows, versionRows, reports, body, now, outcomes).reports
          /\ response' = postBatch(env, documentRows, versionRows, reports, body, now, outcomes).response
    /\ UNCHANGED <<documentVars, env, scored, freshVars, call>>

GetReports ==
    /\ \E query \in [reviewStatus : {"", "pending", "reviewed"}] :
          response' = getReports(documentRows, reports, query)
    /\ UNCHANGED <<documentVars, reports, env, scored, freshVars, call>>

GetReport ==
    /\ \E docId \in RequestedIds \ {NoId} :
          response' = getReport(documentRows, reports, docId)
    /\ UNCHANGED <<documentVars, reports, env, scored, freshVars, call>>

PutReview ==
    /\ \E id \in 1..MaxReports, body \in ReviewBodies :
          /\ reports' = putReview(reports, id, body, now).reports
          /\ response' = putReview(reports, id, body, now).response
    /\ UNCHANGED <<documentVars, env, scored, freshVars, call>>

NextReports == PostAnalyze \/ PostBatch \/ GetReports \/ GetReport \/ PutReview

SpecReports == InitReports /\ [][NextReports]_vars

---------------------------------------------------------------------------
(* Batch harness with shared objects: batchAnalyze(documents, allDocs)
   where allDocs holds the very objects of the batch *)

\* The pool as a pass of the loop finds it: an entry that is one of the
\* batch's objects is in the state the passes before left that object in.
sharedPool(allDocs, analyzed) ==
    [i \in DOMAIN allDocs |->
        IF \E j \in DOMAIN analyzed : analyzed[j].id = allDocs[i].id
        THEN analyzed[CHOOSE j \in DOMAIN analyzed : analyzed[j].id = allDocs[i].id]
        ELSE allDocs[i]]

\* One pass of the loop of lines 342-374 over shared objects.
sharedStep(e, before, document, allDocs, clock, outcome) ==
    batchStep(before, document,
              analyzeInBatch(e, document, sharedPool(allDocs, before.documents), clock, outcome))

\* Lines 339-377 when the objects of documents are also entries of allDocs.
RECURSIVE batchAnalyzeShared(_, _, _, _, _)
batchAnalyzeShared(e, documents, allDocs, clock, outcomes) ==
    IF documents = <<>> THEN [results |-> <<>>, documents |-> <<>>]
    ELSE sharedStep(e,
             batchAnalyzeShared(e, SubSeq(documents, 1, Len(documents) - 1),
                                allDocs, clock, outcomes),
             documents[Len(documents)], allDocs, clock, outcomes[Len(documents)])

\* The batches of distinct documents.
DistinctBatches(clock) ==
    UNION { { documents \in [1..n -> BatchDocuments(clock)] :
                \A i, j \in 1..n : documents[i] = documents[j] => i = j } : n \in 0..MaxBatch }

\* batchAnalyze(documents, allDocs) with the batch's own objects in the
\* pool, alone or ahead of the rest of the workspace.
BatchAnalyzeShared ==
    /\ call = NoCall
    /\ \E documents \in DistinctBatches(now), others \in {<<>>, Workspace(now)} :
          \E outcomes \in [DOMAIN documents -> GeminiOutcomes] :
            call' = [ op |-> "batchAnalyzeShared",
                      args |-> [documents |-> documents, allDocs |-> documents \o others],
                      provider |-> outcomes,
                      result |-> batchAnalyzeShared(env, documents, documents \o others,
                                                    now, outcomes) ]
    /\ UNCHANGED <<documentVars, reportVars, env, scored, freshVars>>

NextShared == BatchAnalyzeShared \/ Return

SpecShared == InitAnalyze /\ [][NextShared]_vars

---------------------------------------------------------------------------
(* Similarity harness: calculateSimilarity and cosineSimilarity on vectors
   of either shape *)

MaxDimension == 2

Components == {-1, 0, 1, 2}
Terms == {"backup", "deploy"}
Weights == {0, 1, 2}

DenseVectors ==
    { [shape |-> "dense", w |-> w] :
        w \in UNION { [{IndexKeys[i] : i \in 1..n} -> Components] : n \in 0..MaxDimension } }

SparseVectors ==
    { [shape |-> "sparse", w |-> w] : w \in UNION { [T -> Weights] : T \in SUBSET Terms } }

Embeddings == DenseVectors \cup SparseVectors

\* calculateSimilarity(emb1, emb2).
CalculateSimilarity ==
    /\ call = NoCall
    /\ \E emb1 \in Embeddings, emb2 \in Embeddings :
          call' = [ op |-> "calculateSimilarity",
                    args |-> [emb1 |-> emb1, emb2 |-> emb2],
                    result |-> calculateSimilarity(emb1, emb2) ]
    /\ UNCHANGED <<documentVars, reportVars, env, scored, freshVars>>

\* cosineSimilarity(vec1, vec2), as findRelatedDocuments calls it on stored
\* embeddings of either shape.
CosineSimilarity ==
    /\ call = NoCall
    /\ \E vec1 \in Embeddings, vec2 \in Embeddings :
          call' = [ op |-> "cosineSimilarity",
                    args |-> [emb1 |-> vec1, emb2 |-> vec2],
                    result |-> thousandths(cosineSimilarity(vec1, vec2)) ]
    /\ UNCHANGED <<documentVars, reportVars, env, scored, freshVars>>

NextSimilarity == CalculateSimilarity \/ CosineSimilarity \/ Return

SpecSimilarity == InitAnalyze /\ [][NextSimilarity]_vars

---------------------------------------------------------------------------
(* Document routes: unnamed/part_000 lines 232-312 (routes/documents),
   unnamed/part_001 lines 56-100 (routes/upload) and
   models/DocumentVersion.js; a handler runs up to its next await of a
   table, the requests in flight hold what each handler has read *)

MaxDocuments == 2
MaxVersionNumber == 3
MaxRequests == 2

\* The sequence without its element i.
without(s, i) == SubSeq(s, 1, i - 1) \o SubSeq(s, i + 1, Len(s))

\* Document.create of lines 243-251 and of part_001 lines 89-100.
createdDocument(rows, content) == [id |-> Len(rows) + 1, content |-> content, currentVersion |-> 1]

\* The handler's next step: DocumentVersion.create of these values.
versionRequest(route, documentId, versionNumber, content) ==
    [route |-> route, step |-> "createVersion", documentId |-> documentId, versionNumber |-> versionNumber, content |-> content]

\* indexes: {fields: ['document_id', 'version_number'], unique: true}.
violatesUnique(rows, documentId, versionNumber) ==
    \E i \in DOMAIN rows : rows[i].documentId = documentId /\ rows[i].versionNumber = versionNumber

DocumentContents == {"draft", "final"}

IdleBesidesDocuments ==
    /\ env \in Environments
    /\ scored = <<>>
    /\ FreshIdle
    /\ reports = <<>>
    /\ response = NoResponse

InitDocuments ==
    /\ IdleBesidesDocuments
    /\ documentRows = <<>>
    /\ versionRows = <<>>
    /\ requests = <<>>

\* POST /api/documents, lines 232-251: a body without content is rejected,
\* otherwise the document is created with currentVersion 1 and the handler
\* goes on to create the initial version.
PostDocument ==
    /\ Len(documentRows) < MaxDocuments
    /\ Len(requests) < MaxRequests
    /\ \E content \in DocumentContents \cup {""} :
          IF content = "" THEN UNCHANGED documentVars
          ELSE /\ documentRows' = Append(documentRows, createdDocument(documentRows, content))
               /\ requests' = Append(requests, versionRequest("POST", Len(documentRows) + 1, 1, content))
               /\ UNCHANGED versionRows
    /\ UNCHANGED <<reportVars, env, scored, freshVars, call>>

\* POST /api/upload, part_001 lines 56-100: the document is created with
\* currentVersion 1; the handler creates no version.
UploadDocument ==
    /\ Len(documentRows) < MaxDocuments
    /\ \E content \in DocumentContents \cup {""} :
          IF content = "" THEN UNCHANGED documentVars
          ELSE /\ documentRows' = Append(documentRows, createdDocument(documentRows, content))
               /\ UNCHANGED <<versionRows, requests>>
    /\ UNCHANGED <<reportVars, env, scored, freshVars, call>>

\* PUT /api/documents/:id, lines 270-282 and 303-309: the handler reads the
\* document; with new content it computes newVersion from what it read and
\* goes on to create the version, otherwise only the metadata change.
PutDocument ==
    /\ Len(requests) < MaxRequests
    /\ \E id \in 1..MaxDocuments, content \in DocumentContents \cup {""} :
          IF \/ id \notin DOMAIN documentRows
             \/ content = ""
             \/ content = documentRows[id].content
          THEN UNCHANGED documentVars
          ELSE /\ documentRows[id].currentVersion < MaxVersionNumber
               /\ requests' = Append(requests,
                      versionRequest("PUT", id, documentRows[id].currentVersion + 1, content))
               /\ UNCHANGED <<documentRows, versionRows>>
    /\ UNCHANGED <<reportVars, env, scored, freshVars, call>>

\* DocumentVersion.create, lines 254-261 and 285-293: the unique index
\* rejects a second row with the number, which ends the handler; after the
\* row POST answers and PUT goes on to update the document.
CreateVersion ==
    /\ \E i \in DOMAIN requests :
          /\ requests[i].step = "createVersion"
          /\ IF violatesUnique(versionRows, requests[i].documentId, requests[i].versionNumber)
             THEN /\ requests' = without(requests, i)
                  /\ UNCHANGED versionRows
             ELSE /\ versionRows' = Append(versionRows,
                         [ documentId |-> requests[i].documentId,
                           versionNumber |-> requests[i].versionNumber,
                           content |-> requests[i].content ])
                  /\ requests' = IF requests[i].route = "POST" THEN without(requests, i)
                                 ELSE [requests EXCEPT ![i].step = "updateDocument"]
    /\ UNCHANGED <<documentRows, reportVars, env, scored, freshVars, call>>

\* document.update, lines 296-302, and the answer.
UpdateStoredDocument ==
    /\ \E i \in DOMAIN requests :
          /\ requests[i].step = "updateDocument"
          /\ documentRows' = [documentRows EXCEPT
                 ![requests[i].documentId].content = requests[i].content,
                 ![requests[i].documentId].currentVersion = requests[i].versionNumber]
          /\ requests' = without(requests, i)
    /\ UNCHANGED <<versionRows, reportVars, env, scored, freshVars, call>>

NextDocuments == PostDocument \/ UploadDocument \/ PutDocument \/ CreateVersion \/ UpdateStoredDocument

SpecDocuments == InitDocuments /\ [][NextDocuments]_vars

---------------------------------------------------------------------------
(* Statement harness: detectStatementContradiction on any two statements *)

sRetry == <<"Retry", "after", "5", "minutes", "then", "after", "10", "minutes">>

\* Statements with positive and negative phrases, with one and with two
\* numbers of a unit, and without either.
Statements ==
    { sDeploy5, sDeploy15, sMfaMust, sMfaMustNot, sBackupAlways, sBackupNever,
      sTokens, sPlain, sShort, sRetry }

\* detectStatementContradiction(stmt1, stmt2).
DetectStatementContradiction ==
    /\ call = NoCall
    /\ \E stmt1 \in Statements, stmt2 \in Statements :
          call' = [ op |-> "detectStatementContradiction",
                    args |-> [stmt1 |-> stmt1, stmt2 |-> stmt2],
                    result |-> detectStatementContradiction(stmt1, stmt2) ]
    /\ UNCHANGED <<documentVars, reportVars, env, scored, freshVars>>

NextStatements == DetectStatementContradiction \/ Return

SpecStatements == InitAnalyze /\ [][NextStatements]_vars

---------------------------------------------------------------------------
(* Claims about the decay engine, checked under Spec *)

Analyzed == call.op = "analyzeDocument" /\ call.result.ok
Detected == call.op = "detectContradictions"

RiskLevels == {"low", "medium", "high"}
ConfidenceGrid == {0, 390000, 400000, 690000, 700000, 990000, ONE}

\* C1: in every verdict of analyzeDocument decay_detected is true iff
\* confidence_score < 1.0 or risk_level is not 'low'; and shouldFlagDecay is
\* false exactly for (1.0, 'low') and true for every other combination of a
\* confidence and a risk level.
C1_DecayFlaggedIffBelowOneOrNotLow ==
    /\ Analyzed =>
          LET v == call.result.verdict
          IN  v.decay_detected <=> (v.confidence_score < ONE \/ v.risk_level # "low")
    /\ \A c \in ConfidenceGrid, r \in RiskLevels :
          (~shouldFlagDecay(c, r)) <=> (c = ONE /\ r = "low")

\* A verdict that does not flag decay (full confidence, low risk) has been
\* returned.
C1_Witness ==
    /\ Analyzed
    /\ ~call.result.verdict.decay_detected
    /\ call.result.verdict.confidence_score = ONE
    /\ call.result.verdict.risk_level = "low"

\* The classification as the specification words it, first match first.
SpecifiedRisk(confidence, contradictions, significantDrift, status) ==
    IF contradictions \/ confidence < 400000 THEN "high"
    ELSE IF significantDrift \/ status = "critical" \/ confidence < 700000
    THEN "medium"
    ELSE "low"

relatedById(id) ==
    LET docs == call.args.relatedDocs
    IN  docs[CHOOSE i \in DOMAIN docs : docs[i].id = id]

\* Strictly newer than the subject, or of a strictly higher authority rank
\* (SOP > Policy > Spec > Guide > Notes).
NewerOrMoreAuthoritative(related, subject) ==
    \/ /\ related.updatedAt # NoDate /\ subject.updatedAt # NoDate
       /\ related.updatedAt > subject.updatedAt
    \/ /\ related.type \in DocTypes /\ subject.type \in DocTypes
       /\ typeRank(related.type) > typeRank(subject.type)

\* C9: detectContradictions compares the subject only against related
\* documents that are strictly newer than the subject or strictly more
\* authoritative: a related document that is neither (one with the same
\* updatedAt and the same or a lower rank included) never contributes a
\* contradiction, a penalty or a cited source.
C9_OnlyNewerOrMoreAuthoritative ==
    Detected =>
        /\ \A i \in DOMAIN call.result.contradictions :
              NewerOrMoreAuthoritative(
                  relatedById(call.result.contradictions[i].conflictsWith.documentId),
                  call.args.document)
        /\ "decayReasons" \in DOMAIN call.result =>
              \A i \in DOMAIN call.result.decayReasons :
                  \A k \in DOMAIN call.result.decayReasons[i].sources :
                      NewerOrMoreAuthoritative(
                          relatedById(call.result.decayReasons[i].sources[k]),
                          call.args.document)
        /\ (\A j \in DOMAIN call.args.relatedDocs :
               ~NewerOrMoreAuthoritative(call.args.relatedDocs[j],
                                         call.args.document))
              => call.result.penalty = 0

countSeverity(contradictions, severity) ==
    Cardinality({i \in DOMAIN contradictions :
                    contradictions[i].severity = severity})

\* Where a contradiction was discovered: the position of the related
\* document, of the subject's statement and of the related statement.
discoveredAt(c) ==
    LET docs == call.args.relatedDocs
        own == extractKeyStatements(call.args.document.content)
        r == CHOOSE i \in DOMAIN docs : docs[i].id = c.conflictsWith.documentId
        theirs == extractKeyStatements(docs[r].content)
    IN  << r,
           CHOOSE i \in DOMAIN own : own[i] = c.thisDocument.statement,
           CHOOSE i \in DOMAIN theirs : theirs[i] = c.conflictsWith.statement >>

lexBefore(a, b) ==
    \/ a[1] < b[1]
    \/ a[1] = b[1] /\ a[2] < b[2]
    \/ a[1] = b[1] /\ a[2] = b[2] /\ a[3] < b[3]

\* C10: detectContradictions returns penalty = min(0.4, 0.15 * #high +
\* 0.08 * #medium); hasContradictions iff the penalty is > 0; decayReasons
\* holds exactly one 'contradiction' reason per contradiction, in discovery
\* order, whose sources are exactly the id of the conflicting document;
\* and with no related documents the result is hasContradictions = false,
\* no contradictions and penalty 0.
C10_PenaltyAndReasonsFromContradictions ==
    Detected =>
        LET r == call.result
            found == r.contradictions
        IN  /\ r.penalty = Min(400000,
                               150000 * countSeverity(found, "high")
                                 + 80000 * countSeverity(found, "medium"))
            /\ r.hasContradictions <=> (r.penalty > 0)
            /\ \A i, j \in DOMAIN found :
                  i < j => lexBefore(discoveredAt(found[i]), discoveredAt(found[j]))
            /\ Len(call.args.relatedDocs) > 0 =>
                  /\ "decayReasons" \in DOMAIN r
                  /\ Len(r.decayReasons) = Len(found)
                  /\ \A i \in DOMAIN found :
                        /\ r.decayReasons[i].type = "contradiction"
                        /\ r.decayReasons[i].description.statement.of
                              = found[i].thisDocument.statement
                        /\ r.decayReasons[i].sources
                              = <<found[i].conflictsWith.documentId>>
            /\ Len(call.args.relatedDocs) = 0 =>
                  /\ ~r.hasContradictions
                  /\ found = <<>>
                  /\ r.penalty = 0

\* Four high-severity contradictions against two related documents have
\* been found, and the penalty is the cap.
C10_Witness ==
    /\ Detected
    /\ Len(call.result.contradictions) = 4
    /\ countSeverity(call.result.contradictions, "high") = 4
    /\ call.result.penalty = 400000
    /\ Len(call.result.decayReasons) = 4

---------------------------------------------------------------------------
(* Claims about freshness *)

\* The reference date as the specification words it: lastVerifiedAt if
\* present, else updatedAt.
SpecifiedReference(d) ==
    IF d.lastVerifiedAt # NoDate THEN d.lastVerifiedAt ELSE d.updatedAt

StatusRank(status) ==
    CASE status = "fresh" -> 0 [] status = "warning" -> 1 [] status = "critical" -> 2

\* C7: evaluateFreshness agrees with the specified reference for every type
\* and every age in whole days: the thresholds are the pair of the type (an
\* unknown or missing type gets a pair at least as lenient as every known
\* one); fresh below warning, warning from warning up to critical, critical
\* from critical on; penalty 0 when fresh, the configured maximum age
\* penalty when critical, 0.1 + 0.2*(age - warning)/(critical - warning)
\* rounded to 3 decimals when warning; a 'time' reason iff not fresh.
C7_FreshnessMatchesReference ==
    (freshness # NoResult /\ SpecifiedReference(doc) # NoDate) =>
        LET th == freshness.thresholds
            age == (now - SpecifiedReference(doc)) \div HoursPerDay
        IN  /\ doc.type \in DocTypes => th = DECAY_THRESHOLDS[doc.type]
            /\ doc.type \notin DocTypes =>
                  \A t \in DocTypes :
                      /\ th.warning >= DECAY_THRESHOLDS[t].warning
                      /\ th.critical >= DECAY_THRESHOLDS[t].critical
            /\ freshness.ageDays = age
            /\ age < th.warning =>
                  freshness.status = "fresh" /\ freshness.penalty = 0
            /\ (th.warning <= age /\ age < th.critical) =>
                  /\ freshness.status = "warning"
                  /\ freshness.penalty =
                        RoundTo(100000 * (th.critical - th.warning)
                                  + 200000 * (age - th.warning),
                                th.critical - th.warning, 1000)
            /\ age >= th.critical =>
                  /\ freshness.status = "critical"
                  /\ freshness.penalty = MAX_AGE_PENALTY(env)
            /\ (freshness.decayReason # NoReason) <=> (freshness.status # "fresh")
            /\ freshness.decayReason # NoReason =>
                  freshness.decayReason.type = "time"

\* What evaluateFreshness reports for the row as it stands.
Reported == evaluateFreshness(doc, now)

\* The stored result, when there is one, was computed from the specified
\* reference date.
AgeFromSpecifiedReference ==
    (freshness # NoResult /\ SpecifiedReference(doc) # NoDate) =>
        freshness.ageDays = (now - SpecifiedReference(doc)) \div HoursPerDay

\* A step in which the document is (re-)verified.
Reverified == doc'.lastVerifiedAt # doc.lastVerifiedAt /\ doc'.lastVerifiedAt = now'

\* C8 (as claimed): the reference date is lastVerifiedAt if present, else
\* updatedAt; while the reference date is unchanged and time advances the
\* status only moves fresh -> warning -> critical and the penalty never
\* decreases; the status returns to fresh only after re-verification; and
\* after re-verification evaluateFreshness reports fresh with penalty 0.
C8_ForwardOnlyUntilReverified ==
    [][ /\ AgeFromSpecifiedReference
        /\ (SpecifiedReference(doc') = SpecifiedReference(doc) /\ now' >= now) =>
              /\ StatusRank(Reported'.status) >= StatusRank(Reported.status)
              /\ Reported'.penalty >= Reported.penalty
        /\ (Reported.status # "fresh" /\ Reported'.status = "fresh") => Reverified
        /\ Reverified => (Reported'.status = "fresh" /\ Reported'.penalty = 0)
      ]_vars

\* C8 (amended): as above, but the status is forward-only while the
\* reference date and the document type are unchanged, and it returns to
\* fresh only when the reference date is reset (re-verification, or any
\* update of a never-verified document) or the type is changed.
C8_ForwardOnlyUntilReferenceReset ==
    [][ /\ AgeFromSpecifiedReference
        /\ ( /\ SpecifiedReference(doc') = SpecifiedReference(doc)
             /\ doc'.type = doc.type
             /\ now' >= now ) =>
              /\ StatusRank(Reported'.status) >= StatusRank(Reported.status)
              /\ Reported'.penalty >= Reported.penalty
        /\ (Reported.status # "fresh" /\ Reported'.status = "fresh") =>
              \/ SpecifiedReference(doc') > SpecifiedReference(doc)
              \/ doc'.type # doc.type
        /\ Reverified => (Reported'.status = "fresh" /\ Reported'.penalty = 0)
      ]_vars

\* A document last seen critical has just been re-verified and is reported
\* fresh again with no penalty.
C8_Witness ==
    /\ observed = "critical"
    /\ doc.lastVerifiedAt = now
    /\ Reported.status = "fresh"
    /\ Reported.penalty = 0

---------------------------------------------------------------------------
(* Claims about the confidence scorer, checked under SpecScore *)

ScoredCalls == { scored[i] : i \in 1..Len(scored) }

\* C2: calculateConfidence returns a confidence in [0,1] for every
\* combination of penalties and supporting-document count, penalties above
\* their caps and negative penalties included, and
\* breakdown.final_confidence equals the returned confidence.
C2_ConfidenceInUnitInterval ==
    \A c \in ScoredCalls :
        /\ 0 <= c.result.confidence
        /\ c.result.confidence <= ONE
        /\ c.result.breakdown.final_confidence = c.result.confidence

\* Both adversarial shapes have been scored: a negative penalty that would
\* lift the score above 1, and penalties above every cap that sink it to 0.
C2_Witness ==
    /\ \E c \in ScoredCalls :
          /\ c.params.agePenalty < 0
          /\ c.params.supportingDocsCount >= 3
          /\ c.result.confidence = ONE
    /\ \E c \in ScoredCalls :
          /\ c.params.agePenalty > MAX_AGE_PENALTY(env)
          /\ c.params.contradictionPenalty > MAX_CONTRADICTION_PENALTY(env)
          /\ c.params.driftPenalty > MAX_DRIFT_PENALTY(env)
          /\ c.params.supportingDocsCount = 0
          /\ c.result.confidence = 0

\* C3: in every breakdown each of age_penalty, contradiction_penalty,
\* drift_penalty and support_penalty is non-negative and at most its
\* configured cap, for any supplied penalties.
C3_PenaltiesWithinCaps ==
    \A c \in ScoredCalls :
        LET b == c.result.breakdown
        IN  /\ 0 <= b.age_penalty /\ b.age_penalty <= MAX_AGE_PENALTY(env)
            /\ 0 <= b.contradiction_penalty
            /\ b.contradiction_penalty <= MAX_CONTRADICTION_PENALTY(env)
            /\ 0 <= b.drift_penalty /\ b.drift_penalty <= MAX_DRIFT_PENALTY(env)
            /\ 0 <= b.support_penalty
            /\ b.support_penalty <= MAX_SUPPORT_PENALTY(env)

\* Call y is call x with exactly one signal made worse: one penalty larger,
\* or fewer supporting documents; everything else equal.
OneSignalWorse(x, y) ==
    \/ /\ y.agePenalty > x.agePenalty
       /\ y = [x EXCEPT !.agePenalty = y.agePenalty]
    \/ /\ y.contradictionPenalty > x.contradictionPenalty
       /\ y = [x EXCEPT !.contradictionPenalty = y.contradictionPenalty]
    \/ /\ y.driftPenalty > x.driftPenalty
       /\ y = [x EXCEPT !.driftPenalty = y.driftPenalty]
    \/ /\ y.supportingDocsCount < x.supportingDocsCount
       /\ y = [x EXCEPT !.supportingDocsCount = y.supportingDocsCount]

\* C4: the confidence is monotonically non-increasing in each individual
\* penalty: of two calls that differ only in one penalty being larger (or in
\* the supporting-document count being smaller), the worse one does not
\* score higher.
C4_MonotoneInEachPenalty ==
    \A x, y \in ScoredCalls :
        OneSignalWorse(x.params, y.params)
            => y.result.confidence <= x.result.confidence

\* Two calls that differ only in the supporting-document count (2 against
\* 1) have been scored, and the one with less support scored strictly lower.
C4_Witness ==
    \E x, y \in ScoredCalls :
        /\ x.params.supportingDocsCount = 2
        /\ y.params.supportingDocsCount = 1
        /\ OneSignalWorse(x.params, y.params)
        /\ y.result.confidence < x.result.confidence

\* C5: total_penalty equals the sum of the four applied penalties
\* (age + contradiction + drift + support) rounded to 3 decimals, whatever
\* the 2-decimal rounding of the final score, for every input.
C5_TotalPenaltyIsSum ==
    \A c \in ScoredCalls :
        LET a == appliedPenalties3(env, c.params)
        IN  c.result.breakdown.total_penalty =
                RoundTo(a.age + a.contradiction + a.drift + a.support, 3, 1000)


---------------------------------------------------------------------------
(* Claims about the version drift analyzer, checked under SpecDrift *)

DriftAnalyzed == call.op = "analyzeVersionDrift"

\* The drift of version i of the call as the analyzer measures it.
measuredDrift(i) ==
    calculateSemanticDifference(call.args.document.content,
                                call.args.versions[i].content)

\* The versions of the call whose measured drift is at least bound, in the
\* supplied order.
versionsOver(bound) ==
    SelectSeq([i \in DOMAIN call.args.versions |-> i],
              LAMBDA i : measuredDrift(i) >= bound)

\* C11: analyzeVersionDrift returns penalty 0.2 when the largest drift over
\* the supplied versions is at least 0.4, 0.1 when it is in [0.25, 0.4) and
\* 0 otherwise; the changes are exactly the versions with drift at least
\* 0.25; hasSignificantDrift holds iff some version has drift at least 0.4;
\* a version_drift reason is emitted iff some version is significant and
\* then it refers to the first significant version in the supplied order;
\* an empty version list gives penalty 0 and no reason.
C11_DriftPenaltyChangesAndReason ==
    DriftAnalyzed =>
        LET r == call.result
            moderate == versionsOver(250000)
            significant == versionsOver(400000)
        IN  /\ r.penalty = (IF significant # <<>> THEN 200000
                            ELSE IF moderate # <<>> THEN 100000 ELSE 0)
            /\ Len(r.changes) = Len(moderate)
            /\ \A j \in DOMAIN moderate :
                  /\ r.changes[j].fromVersion =
                        call.args.versions[moderate[j]].versionNumber
                  /\ r.changes[j].driftScore = measuredDrift(moderate[j])
            /\ ("hasSignificantDrift" \in DOMAIN r /\ r.hasSignificantDrift)
                  = (significant # <<>>)
            /\ (r.decayReason # NoReason) = (significant # <<>>)
            /\ significant # <<>> =>
                  /\ r.decayReason.type = "version_drift"
                  /\ r.decayReason.description.fromVersion =
                        call.args.versions[significant[1]].versionNumber
            /\ call.args.versions = <<>> =>
                  r.penalty = 0 /\ r.decayReason = NoReason

\* Two significant versions after a version that is not: the reason refers
\* to the first of the significant ones.
C11_Witness ==
    /\ DriftAnalyzed
    /\ Len(call.args.versions) = 2
    /\ measuredDrift(1) >= 400000
    /\ measuredDrift(2) >= 400000
    /\ call.result.penalty = 200000
    /\ call.result.decayReason # NoReason
    /\ call.result.decayReason.description.fromVersion = 2

\* The drift of version i of the call taken from the embeddings: the stored
\* ones where present, computed from the content otherwise.
embeddingDrift(i) ==
    Round3(ONE - cosineSimilarity(embeddingOf(call.args.document),
                                  embeddingOf(call.args.versions[i])))

\* C12: the drift of each prior version is computed from the stored
\* embeddings of the document and of the version when they are present, and
\* from the content only when a stored embedding is absent; so the reported
\* drift score is the largest drift between those embeddings.
C12_DriftFromStoredEmbeddings ==
    (DriftAnalyzed /\ call.args.versions # <<>>) =>
        /\ \A i \in DOMAIN call.args.versions :
              call.result.driftScore >= embeddingDrift(i)
        /\ \E i \in DOMAIN call.args.versions :
              call.result.driftScore = embeddingDrift(i)

---------------------------------------------------------------------------
(* Claims about findRelatedDocuments, checked under SpecRelated *)

RelatedFound == call.op = "findRelatedDocuments"

idsOf(docs) == { docs[i].id : i \in DOMAIN docs }

\* C13: findRelatedDocuments never returns the subject itself, returns only
\* candidates of the pool whose similarity to the subject is at least the
\* threshold, sorted by similarity descending, and what it returns for a
\* threshold is among what it returns for any lower threshold on the same
\* subject and pool.
C13_RelatedAboveThresholdSortedAndMonotone ==
    RelatedFound =>
        LET a == call.args
            r == call.result
        IN  /\ a.document.id \notin idsOf(r)
            /\ \A i \in DOMAIN r :
                  /\ \E k \in DOMAIN a.allDocs :
                        /\ a.allDocs[k].id = r[i].id
                        /\ r[i].similarity =
                              cosineSimilarity(embeddingOf(a.document),
                                               embeddingOf(a.allDocs[k]))
                  /\ r[i].similarity >= a.threshold
            /\ \A i, j \in DOMAIN r : i < j => r[i].similarity >= r[j].similarity
            /\ \A lower \in { t \in Thresholds : t <= a.threshold } :
                  /\ idsOf(r) \subseteq
                        idsOf(findRelatedDocuments(a.document, a.allDocs, lower))
                  /\ Len(r) <= Len(findRelatedDocuments(a.document, a.allDocs, lower))

\* The default threshold keeps both candidates, which come out in another
\* order than the pool's.
C13_Witness ==
    /\ RelatedFound
    /\ call.args.threshold = 300000
    /\ Len(call.args.allDocs) = 3
    /\ Len(call.result) = 2
    /\ call.result[1].similarity > call.result[2].similarity
    /\ call.result[1].id = call.args.allDocs[3].id
    /\ call.result[2].id = call.args.allDocs[2].id

---------------------------------------------------------------------------
(* Claims about the verdict's reasons and recommendations, checked under   *)
(* Spec                                                                    *)

\* The related documents of the call after auto-discovery.
relatedAfterDiscovery ==
    IF Len(call.args.relatedDocs) = 0 /\ Len(call.args.allDocs) > 0
    THEN findRelatedDocuments(call.result.document, call.args.allDocs, 300000)
    ELSE call.args.relatedDocs

\* The place of a reason type in the specified order.
reasonRank(type) ==
    CASE type = "time" -> 1
      [] type = "contradiction" -> 2
      [] type = "version_drift" -> 3
      [] type = "low_support" -> 4
      [] OTHER -> 5

reasonsOfType(reasons, type) == SelectSeq(reasons, LAMBDA r : r.type = type)

\* C14: in every verdict the decay reasons are in the order time (at most
\* one), contradictions in the detector's discovery order, version_drift
\* (at most one), low_support (at most one); and low_support is present iff
\* there are no related documents after auto-discovery and the support
\* penalty is nonzero.
C14_ReasonsInFixedOrder ==
    Analyzed =>
        LET v == call.result.verdict
            reasons == v.decay_reasons
            found == v._internal.contradictions
            conflicts == reasonsOfType(reasons, "contradiction")
        IN  /\ \A i \in DOMAIN reasons : reasonRank(reasons[i].type) <= 4
            /\ \A i, j \in DOMAIN reasons :
                  i < j => reasonRank(reasons[i].type) <= reasonRank(reasons[j].type)
            /\ Len(reasonsOfType(reasons, "time")) <= 1
            /\ Len(reasonsOfType(reasons, "version_drift")) <= 1
            /\ Len(reasonsOfType(reasons, "low_support")) <= 1
            /\ Len(conflicts) = Len(found)
            /\ \A i \in DOMAIN found :
                  /\ conflicts[i].sources = <<found[i].conflictsWith.documentId>>
                  /\ conflicts[i].description.statement.of
                        = found[i].thisDocument.statement
                  /\ conflicts[i].description.conflictsWith.of
                        = found[i].conflictsWith.statement
            /\ (reasonsOfType(reasons, "low_support") # <<>>)
                  = (/\ Len(relatedAfterDiscovery) = 0
                     /\ v._internal.confidence_breakdown.support_penalty # 0)

\* A verdict with a time reason, then two contradictions against different
\* documents, then a version_drift reason.
C14_Witness ==
    /\ Analyzed
    /\ Len(call.result.verdict.decay_reasons) = 4
    /\ call.result.verdict.decay_reasons[1].type = "time"
    /\ call.result.verdict.decay_reasons[2].type = "contradiction"
    /\ call.result.verdict.decay_reasons[3].type = "contradiction"
    /\ call.result.verdict.decay_reasons[2].sources
          # call.result.verdict.decay_reasons[3].sources
    /\ call.result.verdict.decay_reasons[4].type = "version_drift"

\* C15: whenever analyzeDocument returns decay_detected = true the update
\* recommendations and the summary are non-empty; when decay_detected =
\* false the recommendations are empty and the summary is the fixed
\* sentence 'No decay signals detected.'
C15_RecommendationsIffDecayDetected ==
    Analyzed =>
        LET v == call.result.verdict
        IN  /\ v.decay_detected =>
                  /\ v.update_recommendations # <<>>
                  /\ v.what_changed_summary # <<>>
            /\ ~v.decay_detected =>
                  /\ v.update_recommendations = <<>>
                  /\ v.what_changed_summary
                        = << [text |-> "No decay signals detected."] >>

---------------------------------------------------------------------------
(* Claims about batchAnalyze, checked under SpecBatch *)

Batched == call.op = "batchAnalyze"

\* The analysis of document i of the batch taken alone.
aloneAnalysis(i) ==
    analyzeInBatch(env, call.args.documents[i], call.args.allDocs, now,
                   call.provider[i])

\* The documents of the batch whose analysis succeeds, in input order.
succeeding ==
    SelectSeq([i \in DOMAIN call.args.documents |-> i],
              LAMBDA i : aloneAnalysis(i).ok)

isErrorRecord(record, message) ==
    /\ record.risk_level = "high"
    /\ record.decay_detected = FALSE
    /\ record.confidence_score = 0
    /\ Len(record.decay_reasons) = 1
    /\ record.decay_reasons[1].type = "error"
    /\ record.decay_reasons[1].description.message = message

\* C16: batchAnalyze returns exactly one record per input document, in
\* input order; a document whose analysis fails yields a record with
\* risk_level 'high', decay_detected false, confidence_score 0 and a single
\* 'error' reason carrying the failure message; the records of the other
\* documents are the full analyses they get in a batch without the failing
\* ones.
C16_BatchIsolatesFailures ==
    Batched =>
        LET documents == call.args.documents
            results == call.result.results
        IN  /\ Len(results) = Len(documents)
            /\ \A i \in DOMAIN documents :
                  /\ results[i].documentId = documents[i].id
                  /\ IF aloneAnalysis(i).ok
                     THEN /\ "error" \notin DOMAIN results[i]
                          /\ \A f \in DOMAIN aloneAnalysis(i).verdict :
                                results[i][f] = aloneAnalysis(i).verdict[f]
                     ELSE isErrorRecord(results[i], aloneAnalysis(i).error)
            /\ batchAnalyze(env, [j \in DOMAIN succeeding |-> documents[succeeding[j]]],
                            call.args.allDocs, now,
                            [j \in DOMAIN succeeding |-> call.provider[succeeding[j]]]).results
                  = [j \in DOMAIN succeeding |-> results[succeeding[j]]]

\* A batch of two whose first document fails and whose second document is
\* analyzed in full.
C16_Witness ==
    /\ Batched
    /\ Len(call.args.documents) = 2
    /\ Len(call.result.results) = 2
    /\ "error" \in DOMAIN call.result.results[1]
    /\ isErrorRecord(call.result.results[1], call.result.results[1].error)
    /\ "error" \notin DOMAIN call.result.results[2]
    /\ call.result.results[2].decay_detected

\* C17: an analysis given a document whose content is null fails with an
\* error instead of returning a verdict, so a batch of two documents of
\* which one has content null returns two records, an error record for the
\* malformed document and a full analysis for the well-formed one.
C17_MalformedInputFails ==
    (Batched /\ Len(call.args.documents) = 2) =>
        /\ Len(call.result.results) = 2
        /\ \A i \in 1..2 :
              call.args.documents[i].content = NoText =>
                  /\ ~aloneAnalysis(i).ok
                  /\ "error" \in DOMAIN call.result.results[i]
                  /\ isErrorRecord(call.result.results[i],
                                   call.result.results[i].error)

---------------------------------------------------------------------------
(* Claims about the embedding, repeated calls and the inputs *)

\* The vectors the provider can return.
ProviderVectors == { o.value : o \in { x \in GeminiOutcomes : x.ok } }

C19_RepeatedAnalysisIdentical ==
    call.op = "analyzeDocumentAgain" =>
        /\ call.result.ok = call.first.result.ok
        /\ call.result.ok =>
              /\ call.result.verdict = call.first.result.verdict
              /\ call.result.verdict._internal.confidence_breakdown
                    = call.first.result.verdict._internal.confidence_breakdown

\* The first call obtained the provider's vector for a subject without one
\* and found its related documents in the pool with it; the second call
\* has returned.
C19_Witness ==
    /\ call.op = "analyzeDocumentAgain"
    /\ call.result.ok
    /\ call.first.args.document.embedding = NoEmbedding
    /\ call.first.result.document.embedding \in ProviderVectors
    /\ call.first.args.relatedDocs = <<>>
    /\ call.first.args.allDocs # <<>>
    /\ call.result.verdict.decay_detected

\* C20: after analyzeDocument returns, the supplied document is unchanged
\* in every field.
C20_InputsUnchanged ==
    call.op = "analyzeDocument" => call.result.document = call.args.document

---------------------------------------------------------------------------
(* Claims about the decay routes, checked under SpecReports *)

\* The names under which the internal audit block travels.
auditFields == {"_internal", "confidence_breakdown", "confidenceBreakdown"}

\* The objects a response body is made of: the body and the records it lists.
objectsOf(body) ==
    {body}
    \cup (IF "results" \in DOMAIN body THEN {body.results[i] : i \in DOMAIN body.results} ELSE {})
    \cup (IF "reports" \in DOMAIN body THEN {body.reports[i] : i \in DOMAIN body.reports} ELSE {})
    \cup (IF "report" \in DOMAIN body THEN {body.report} ELSE {})

\* C21: no response of a decay route (analyze, batch, reports,
\* reports/:docId, review) contains the confidence breakdown or any
\* _internal field.
C21_NoAuditFieldInResponse ==
    response # NoResponse =>
        \A object \in objectsOf(response.body) : DOMAIN object \cap auditFields = {}

\* C22: a stored analysis starts as 'pending'; its review status only
\* changes from 'pending' to 'reviewed', 'dismissed' or 'actioned'; a review
\* request with an invalid status or without reviewedBy is rejected and
\* leaves the reports unchanged.
C22_ReviewOnlyLeavesPending ==
    [][ /\ \A i \in DOMAIN reports' :
              IF i \in DOMAIN reports
              THEN reports'[i].reviewStatus # reports[i].reviewStatus =>
                      /\ reports[i].reviewStatus = "pending"
                      /\ reports'[i].reviewStatus \in {"reviewed", "dismissed", "actioned"}
              ELSE reports'[i].reviewStatus = "pending"
        /\ (response'.route = "PUT /reports/:id/review" /\ response'.status = 400) =>
              reports' = reports ]_vars

---------------------------------------------------------------------------
(* Claims about batches over shared objects, checked under SpecShared *)

BatchedShared == call.op = "batchAnalyzeShared"

\* The records of a batch of the one document documents[i] against the pool
\* as it was supplied.
recordAlone(i) ==
    batchAnalyze(env, <<call.args.documents[i]>>, call.args.allDocs, now,
                 <<call.provider[i]>>).results[1]

\* C23: in a batch no document's analysis reads or writes another's state:
\* the record of a document is the one it gets alone against the same pool,
\* whatever other documents are in the batch and whatever their order, also
\* when the objects of the batch are the objects of the pool.
C23_BatchRecordsIndependent ==
    BatchedShared =>
        \A i \in DOMAIN call.args.documents : call.result.results[i] = recordAlone(i)

---------------------------------------------------------------------------
(* Claims about citations, penalties and reasons, checked under Spec *)

\* The source ids the decay reasons of the verdict cite.
citedSources == { flatSources(call.result.verdict.decay_reasons)[i] : i \in DOMAIN flatSources(call.result.verdict.decay_reasons) }

\* C24: the citations are the deduplicated union of the source ids of all
\* decay reasons and the ids of all related documents: no id twice, every
\* related document's id and every cited source id, and nothing else.
C24_CitationsAreDeduplicatedUnion ==
    Analyzed =>
        LET citations == call.result.verdict.citations
        IN  /\ \A i, j \in DOMAIN citations : citations[i] = citations[j] => i = j
            /\ { citations[i] : i \in DOMAIN citations } = citedSources \cup idsOf(relatedAfterDiscovery)

\* A verdict whose reasons cite a related document, with a second related
\* document that no reason cites.
C24_Witness ==
    /\ Analyzed
    /\ citedSources # {}
    /\ idsOf(relatedAfterDiscovery) \ citedSources # {}
    /\ Len(call.result.verdict.citations) = 2

---------------------------------------------------------------------------
(* Claims about the similarity of embeddings, checked under SpecSimilarity *)

Compared == call.op \in {"calculateSimilarity", "cosineSimilarity"}

\* The same operation on the arguments in the other order.
swappedResult ==
    IF call.op = "calculateSimilarity"
    THEN calculateSimilarity(call.args.emb2, call.args.emb1)
    ELSE thousandths(cosineSimilarity(call.args.emb2, call.args.emb1))

\* 0 <= dot / sqrt(norms) <= 1.
inUnitInterval(q) == ~q.nan /\ q.dot >= 0 /\ q.dot * q.dot <= q.norms

\* Two quotients are the same number; NaN equals nothing.
sameNumber(p, q) ==
    /\ ~p.nan /\ ~q.nan
    /\ IF p.norms = q.norms THEN p.dot = q.dot
       ELSE /\ (p.dot >= 0) = (q.dot >= 0)
            /\ p.dot * p.dot * q.norms = q.dot * q.dot * p.norms

\* A vector without components, or with zero components only.
emptyOrZero(emb) == \A key \in DOMAIN emb.w : emb.w[key] = 0

\* C25: the similarity of two vectors of either shape (term weights or
\* dense array, negative components, different lengths and mixed shapes
\* included) is in [0,1], is 0 when either vector is empty or has zero
\* norm, and is the same for both orders of the arguments.
C25_SimilarityInUnitIntervalAndSymmetric ==
    Compared =>
        /\ inUnitInterval(call.result)
        /\ (emptyOrZero(call.args.emb1) \/ emptyOrZero(call.args.emb2)) =>
              sameNumber(call.result, quotient(0, 1))
        /\ sameNumber(call.result, swappedResult)

---------------------------------------------------------------------------
(* Claims about the document routes, checked under SpecDocuments *)

\* No handler is in flight.
Completed == requests = <<>>

\* The version numbers stored for a document, in creation order.
storedNumbers(documentId) ==
    LET rows == SelectSeq(versionRows, LAMBDA v : v.documentId = documentId)
    IN  [i \in DOMAIN rows |-> rows[i].versionNumber]

\* C26: after every completed sequence of document operations (POST,
\* upload, PUT with new content, interleaved PUTs of one document included)
\* the version numbers stored for a document are unique and strictly
\* increasing in creation order, one of them is the document's
\* currentVersion and none is higher.
C26_VersionsIncreaseUpToCurrent ==
    Completed =>
        \A id \in DOMAIN documentRows :
            /\ \A i, j \in DOMAIN storedNumbers(id) :
                  i < j => storedNumbers(id)[i] < storedNumbers(id)[j]
            /\ \E i \in DOMAIN storedNumbers(id) :
                  storedNumbers(id)[i] = documentRows[id].currentVersion
            /\ \A i \in DOMAIN storedNumbers(id) :
                  storedNumbers(id)[i] <= documentRows[id].currentVersion

supportPenaltyFor(n) ==
    IF n = 0 THEN Round3(MAX_SUPPORT_PENALTY(env))
    ELSE IF n < 3 THEN RoundTo(MAX_SUPPORT_PENALTY(env) * (3 - n), 3, 1000)
    ELSE 0

---------------------------------------------------------------------------
(* Claims about detectStatementContradiction, checked under SpecStatements *)

StatementsCompared == call.op = "detectStatementContradiction"

\* C30: a statement is never reported as contradicting an identical
\* statement (also when it contains 'must not', or two different numbers of
\* one unit), and the verdict is the same for both orders of the two
\* statements.
C30_NoSelfContradictionAndSymmetric ==
    StatementsCompared =>
        /\ call.args.stmt1 = call.args.stmt2 => ~call.result.isContradiction
        /\ call.result.isContradiction
              = detectStatementContradiction(call.args.stmt2, call.args.stmt1).isContradiction

====
